---- MODULE Spec2Model ----
(***************************************************************************)
(* Model of the pricing-tier analysis engine of src/main.py               *)
(* (PhoenixAuctionAssistant): the statistical analyzer                    *)
(* _analyze_price_distribution with its helpers get_percentile,           *)
(* smart_round and small_round, the AI analyzer _analyze_prices_with_ai   *)
(* with its retry loop and its fallback, calculate_recommended_bid, and   *)
(* the run of calculate_bid: decode_vin, get_ebay_access_token and the     *)
(* loop of search_ebay_parts over the configured parts.                    *)
(*                                                                         *)
(* Money.  The program computes with Python floats holding dollar amounts  *)
(* with cents.  The model holds every amount as an integer number of       *)
(* 1/10000 dollar (Unit units per dollar): a price is a whole number of    *)
(* cents (a multiple of 100 units), a percentile of such prices with a     *)
(* weight that is a multiple of 1/100 is a whole number of units, and the  *)
(* mean of two prices is a whole number of units.  The arithmetic of the   *)
(* model is therefore exact where the program's is binary floating point.  *)
(***************************************************************************)
EXTENDS Integers, Sequences, FiniteSets, TLC

VARIABLES
    raw_items,        \* the listings handed to the analyzer (list of dicts)
    part_name,        \* the part's search keyword
    minimum_price,    \* the part's configured minimum price
    gemini_model,     \* TRUE when self.gemini_model is set
    use_ai_analysis,  \* self.use_ai_analysis
    pc,               \* position of the running call
    attempt,          \* loop variable of the retry loop (0-based)
    calls,            \* number of generate_content invocations made
    failures,         \* number of generate_content invocations that raised
    response,         \* the model's response once a call succeeded
    result,           \* the value returned by the call
    returned_by,      \* the return statement that produced result
    locals,           \* the locals of the function called, read at its return
    vin,              \* the VIN read from the entry field, stripped and upper-cased
    vehicle_info,     \* what decode_vin returned to calculate_bid
    ebay_client_id,   \* EBAY_CLIENT_ID as get_ebay_access_token reloads it
    ebay_client_secret, \* EBAY_CLIENT_SECRET as get_ebay_access_token reloads it
    ebay_access_token,  \* self.ebay_access_token ("" for None)
    parts_list,       \* self.parts_list
    marketplace,      \* the answers the marketplace can give to a search in this run
    part_index,       \* position of the loop over parts_list (1-based)
    query_index,      \* position of the loop over search_queries (1-based)
    all_items,        \* the dict all_items of the part being searched, in insertion order
    parts_prices,     \* the dict parts_prices, in insertion order
    events,           \* requests, answers, messages, analyzer calls and writes, in order
    bid_analysis      \* what calculate_recommended_bid returned to calculate_bid

run_vars == <<vin, vehicle_info, ebay_client_id, ebay_client_secret,
              ebay_access_token, parts_list, marketplace, part_index,
              query_index, all_items, parts_prices, events, bid_analysis>>

analyzer_vars == <<raw_items, part_name, minimum_price, gemini_model,
                   use_ai_analysis, calls, failures, response, locals>>

vars == <<raw_items, part_name, minimum_price, gemini_model, use_ai_analysis,
          pc, attempt, calls, failures, response, result, returned_by, locals,
          vin, vehicle_info, ebay_client_id, ebay_client_secret,
          ebay_access_token, parts_list, marketplace, part_index,
          query_index, all_items, parts_prices, events, bid_analysis>>

(* Python's None *)
None == [none |-> TRUE]

(* no run of calculate_bid or search_ebay_parts is in progress *)
RunIdle ==
    /\ vin = ""
    /\ vehicle_info = None
    /\ ebay_client_id = ""
    /\ ebay_client_secret = ""
    /\ ebay_access_token = ""
    /\ parts_list = <<>>
    /\ marketplace = {}
    /\ part_index = 1
    /\ query_index = 1
    /\ all_items = <<>>
    /\ parts_prices = <<>>
    /\ events = <<>>
    /\ bid_analysis = None

-----------------------------------------------------------------------------
(* Amounts *)

Unit == 100 * 100
Dollars(d) == d * Unit

Min2(a, b) == IF a < b THEN a ELSE b
Max2(a, b) == IF a > b THEN a ELSE b

RECURSIVE SeqSum(_)
SeqSum(s) == IF s = <<>> THEN 0 ELSE Head(s) + SeqSum(Tail(s))

RECURSIVE SeqMin(_)
SeqMin(s) == IF Len(s) = 1 THEN s[1] ELSE Min2(s[1], SeqMin(Tail(s)))

RECURSIVE SeqMax(_)
SeqMax(s) == IF Len(s) = 1 THEN s[1] ELSE Max2(s[1], SeqMax(Tail(s)))

(* Python's round(num/den) for den > 0: nearest integer, a tie to the even one *)
round(num, den) ==
    LET q == num \div den
        r == num % den
    IN  IF 2 * r < den THEN q
        ELSE IF 2 * r > den THEN q + 1
        ELSE IF q % 2 = 0 THEN q ELSE q + 1

(* Python's sorted(): ascending, by insertion *)
RECURSIVE Insert(_, _)
Insert(x, s) ==
    IF s = <<>> THEN <<x>>
    ELSE IF x <= Head(s) THEN <<x>> \o s
    ELSE <<Head(s)>> \o Insert(x, Tail(s))

(* the list left in the order it came in *)
unsorted(s) == s

RECURSIVE sorted(_)
sorted(s) == IF s = <<>> THEN <<>> ELSE Insert(Head(s), sorted(Tail(s)))

-----------------------------------------------------------------------------
(* Strings: str.lower() and the substring test `keyword in title` *)

UpperCase == "ABCDEFGHIJKLMNOPQRSTUVWXYZ"
LowerCase == "abcdefghijklmnopqrstuvwxyz"

UpperSet == {SubSeq(UpperCase, i, i) : i \in 1..Len(UpperCase)}
LowerOfUpper ==
    [c \in UpperSet |->
        LET i == CHOOSE j \in 1..Len(UpperCase) : SubSeq(UpperCase, j, j) = c
        IN  SubSeq(LowerCase, i, i)]

lower_char(c) == IF c \in UpperSet THEN LowerOfUpper[c] ELSE c

RECURSIVE lower_from(_, _)
lower_from(s, i) ==
    IF i > Len(s) THEN "" ELSE lower_char(SubSeq(s, i, i)) \o lower_from(s, i + 1)

lower(s) == lower_from(s, 1)

contains(title, keyword) ==
    \E i \in 1..(Len(title) - Len(keyword) + 1) :
        SubSeq(title, i, i + Len(keyword) - 1) = keyword

-----------------------------------------------------------------------------
(* _analyze_price_distribution *)

suspicious_keywords(part) ==
    CASE part = "engine" ->
            <<"oil filter", "housing", "gasket", "seal", "sensor", "valve cover",
              "dipstick", "bracket", "mount", "belt", "pulley">>
      [] part = "alternator" ->
            <<"brush", "pulley", "wire", "connector", "regulator", "belt">>
      [] part = "transmission" ->
            <<"fluid", "filter", "gasket", "cooler", "mount", "line">>
      [] part = "starter" -> <<"solenoid", "brush", "drive", "gear", "bolt">>
      [] part = "brake caliper" -> <<"pad", "rotor", "disc", "fluid", "line", "hose">>
      [] part = "fuel pump" -> <<"filter", "line", "hose", "tank", "sending unit">>
      [] part = "headlight" -> <<"bulb", "ballast", "wire", "connector", "lens", "cover">>
      [] OTHER -> <<>>

is_suspicious(title, keywords_to_check) ==
    \E k \in 1..Len(keywords_to_check) : contains(title, keywords_to_check[k])

(* Step 1: the loop over raw_prices that drops the listings with a suspicious title *)
RECURSIVE KeywordLoop(_, _, _, _, _)
KeywordLoop(i, raw_prices, raw_titles, keywords_to_check, acc) ==
    IF i > Len(raw_prices) THEN acc
    ELSE LET price == raw_prices[i]
             title == IF i <= Len(raw_titles) THEN lower(raw_titles[i]) ELSE ""
         IN  IF is_suspicious(title, keywords_to_check)
             THEN KeywordLoop(i + 1, raw_prices, raw_titles, keywords_to_check,
                      [acc EXCEPT !.removed_items =
                          Append(@, [price |-> price, why |-> "Miscategorized"])])
             ELSE KeywordLoop(i + 1, raw_prices, raw_titles, keywords_to_check,
                      [acc EXCEPT !.cleaned_prices = Append(@, price)])

(* line 627 without .lower(): the part name is looked up as typed *)
KeywordStageCaseSensitive(raw_prices, part, raw_titles) ==
    KeywordLoop(1, raw_prices, raw_titles, suspicious_keywords(part),
                [cleaned_prices |-> <<>>, removed_items |-> <<>>])

KeywordStage(raw_prices, part, raw_titles) ==
    KeywordLoop(1, raw_prices, raw_titles, suspicious_keywords(lower(part)),
                [cleaned_prices |-> <<>>, removed_items |-> <<>>])

(* Step 2: the minimum price *)
(* line 645 with > for >=: a price equal to the minimum is dropped *)
RECURSIVE ThresholdLoopStrict(_, _, _, _)
ThresholdLoopStrict(i, prices, minimum, acc) ==
    IF i > Len(prices) THEN acc
    ELSE IF prices[i] > minimum
         THEN ThresholdLoopStrict(i + 1, prices, minimum,
                  [acc EXCEPT !.cleaned_prices = Append(@, prices[i])])
         ELSE ThresholdLoopStrict(i + 1, prices, minimum,
                  [acc EXCEPT !.removed_items =
                      Append(@, [price |-> prices[i], why |-> "Below minimum",
                                 minimum |-> minimum])])

RECURSIVE ThresholdLoop(_, _, _, _)
ThresholdLoop(i, prices, minimum, acc) ==
    IF i > Len(prices) THEN acc
    ELSE IF prices[i] >= minimum
         THEN ThresholdLoop(i + 1, prices, minimum,
                  [acc EXCEPT !.cleaned_prices = Append(@, prices[i])])
         ELSE ThresholdLoop(i + 1, prices, minimum,
                  [acc EXCEPT !.removed_items =
                      Append(@, [price |-> prices[i], why |-> "Below minimum",
                                 minimum |-> minimum])])

ThresholdStage(st, minimum) ==
    IF minimum > 0
    THEN ThresholdLoop(1, st.cleaned_prices, minimum,
                       [cleaned_prices |-> <<>>, removed_items |-> st.removed_items])
    ELSE st

(* Step 3: IQR outlier detection *)
(* the gate one too low *)
IqrMinCountOff == 10 - 1

(* the regime cut one too low: nine prices take the standard regime *)
SmallSampleLimitOff == 10 - 1

IqrMinCount == 10          \* line 653: len(cleaned_prices) >= 10
SmallSampleLimit == 10     \* line 708: n < 10

(* the comparisons of line 666 made non-strict: a price on a bound is dropped *)
RECURSIVE IqrLoopStrict(_, _, _, _, _)
IqrLoopStrict(i, prices, lower2, upper2, acc) ==
    IF i > Len(prices) THEN acc
    ELSE IF 2 * prices[i] <= lower2 \/ 2 * prices[i] >= upper2
         THEN IqrLoopStrict(i + 1, prices, lower2, upper2,
                  [acc EXCEPT !.removed_items =
                      Append(@, [price |-> prices[i], why |-> "Statistical outlier"])])
         ELSE IqrLoopStrict(i + 1, prices, lower2, upper2,
                  [acc EXCEPT !.cleaned_prices = Append(@, prices[i])])

RECURSIVE IqrLoop(_, _, _, _, _)
IqrLoop(i, prices, lower2, upper2, acc) ==
    IF i > Len(prices) THEN acc
    ELSE IF 2 * prices[i] < lower2 \/ 2 * prices[i] > upper2
         THEN IqrLoop(i + 1, prices, lower2, upper2,
                  [acc EXCEPT !.removed_items =
                      Append(@, [price |-> prices[i], why |-> "Statistical outlier"])])
         ELSE IqrLoop(i + 1, prices, lower2, upper2,
                  [acc EXCEPT !.cleaned_prices = Append(@, prices[i])])

(* step 3 starting its removal log afresh instead of continuing the log of
   steps 1 and 2 *)
IqrStageFreshLog(st) ==
    IF Len(st.cleaned_prices) >= IqrMinCount
    THEN LET sorted_prices == sorted(st.cleaned_prices)
             q1_idx == Len(sorted_prices) \div 4
             q3_idx == (3 * Len(sorted_prices)) \div 4
             q1 == sorted_prices[q1_idx + 1]
             q3 == sorted_prices[q3_idx + 1]
             iqr == q3 - q1
             lower_bound2 == 2 * q1 - 3 * iqr
             upper_bound2 == 2 * q3 + 3 * iqr
         IN  IqrLoop(1, st.cleaned_prices, lower_bound2, upper_bound2,
                     [cleaned_prices |-> <<>>, removed_items |-> <<>>])
    ELSE st

IqrStage(st) ==
    IF Len(st.cleaned_prices) >= IqrMinCount
    THEN LET sorted_prices == sorted(st.cleaned_prices)
             q1_idx == Len(sorted_prices) \div 4
             q3_idx == (3 * Len(sorted_prices)) \div 4
             q1 == sorted_prices[q1_idx + 1]
             q3 == sorted_prices[q3_idx + 1]
             iqr == q3 - q1
             \* twice the bounds q1 - 1.5*iqr and q3 + 1.5*iqr
             lower_bound2 == 2 * q1 - 3 * iqr
             upper_bound2 == 2 * q3 + 3 * iqr
         IN  IqrLoop(1, st.cleaned_prices, lower_bound2, upper_bound2,
                     [cleaned_prices |-> <<>>, removed_items |-> st.removed_items])
    ELSE st

(* a nearest-rank percentile: the element at the rounded position *)
get_percentile_nearest_rank(data, percentile) ==
    IF Len(data) = 1 THEN data[1]
    ELSE data[round(percentile * (Len(data) - 1), 100) + 1]

get_percentile(data, percentile) ==
    IF Len(data) = 1 THEN data[1]
    ELSE LET index100 == percentile * (Len(data) - 1)     \* 100 * index
             lower_index == index100 \div 100
             upper_index == Min2(lower_index + 1, Len(data) - 1)
             weight100 == index100 - 100 * lower_index     \* 100 * weight
         IN  (data[lower_index + 1] * (100 - weight100)
                + data[upper_index + 1] * weight100) \div 100

(* smart_round with the increment taken from the small-sample table *)
smart_round_small_increments(price) ==
    IF price < Dollars(50) THEN round(price, Dollars(1)) * Dollars(1)
    ELSE IF price < Dollars(200) THEN round(price, Dollars(5)) * Dollars(5)
    ELSE round(price, Dollars(10)) * Dollars(10)

smart_round(price) ==
    IF price < Dollars(100) THEN round(price, Dollars(5)) * Dollars(5)
    ELSE IF price < Dollars(500) THEN round(price, Dollars(10)) * Dollars(10)
    ELSE round(price, Dollars(25)) * Dollars(25)

small_round(price) ==
    IF price < Dollars(50) THEN round(price, Dollars(1)) * Dollars(1)
    ELSE IF price < Dollars(200) THEN round(price, Dollars(5)) * Dollars(5)
    ELSE round(price, Dollars(10)) * Dollars(10)

separation_step(price_range) ==
    IF price_range < Dollars(50) THEN Dollars(5)
    ELSE IF price_range < Dollars(200) THEN Dollars(10)
    ELSE Dollars(25)

(* The tiers before the separation rule: lines 690-725 *)
RoundedTiers(sorted_prices) ==
    LET n == Len(sorted_prices)
    IN  IF n < SmallSampleLimit
        THEN LET raw_p10 == get_percentile(sorted_prices, 5)
                 raw_p30 == get_percentile(sorted_prices, 25)
                 raw_p50 == get_percentile(sorted_prices, 50)
             IN  [raw_p10 |-> raw_p10, raw_p30 |-> raw_p30, raw_p50 |-> raw_p50,
                  budget_tier |-> small_round(raw_p10),
                  standard_tier |-> small_round(raw_p30),
                  premium_tier |-> small_round(raw_p50)]
        ELSE LET raw_p10 == get_percentile(sorted_prices, 10)
                 raw_p30 == get_percentile(sorted_prices, 30)
                 raw_p50 == get_percentile(sorted_prices, 50)
             IN  [raw_p10 |-> raw_p10, raw_p30 |-> raw_p30, raw_p50 |-> raw_p50,
                  budget_tier |-> smart_round(raw_p10),
                  standard_tier |-> smart_round(raw_p30),
                  premium_tier |-> smart_round(raw_p50)]

(* The separation rule: lines 727-740 *)
(* the test of line 731 made non-strict: a range of exactly 10 separates *)
SeparationFiresAtTen(t, sorted_prices) ==
    /\ t.budget_tier = t.standard_tier
    /\ t.standard_tier = t.premium_tier
    /\ Len(sorted_prices) >= 3
    /\ SeqMax(sorted_prices) - SeqMin(sorted_prices) >= Dollars(10)

SeparationFires(t, sorted_prices) ==
    /\ t.budget_tier = t.standard_tier
    /\ t.standard_tier = t.premium_tier
    /\ Len(sorted_prices) >= 3
    /\ SeqMax(sorted_prices) - SeqMin(sorted_prices) > Dollars(10)

(* line 739 without the max(): low is moved down whatever was observed *)
SeparateTiersUnclamped(t, sorted_prices) ==
    IF SeparationFires(t, sorted_prices)
    THEN LET step == separation_step(SeqMax(sorted_prices) - SeqMin(sorted_prices))
         IN  [t EXCEPT !.budget_tier = t.budget_tier - step,
                       !.premium_tier = t.premium_tier + step]
    ELSE t

SeparateTiers(t, sorted_prices) ==
    IF SeparationFires(t, sorted_prices)
    THEN LET step == separation_step(SeqMax(sorted_prices) - SeqMin(sorted_prices))
         IN  [t EXCEPT !.budget_tier = Max2(t.budget_tier - step, SeqMin(sorted_prices)),
                       !.premium_tier = t.premium_tier + step]
    ELSE t

(* the slice of line 751 taken one element too long *)
FirstNAndOne(s, k) == SubSeq(s, 1, Min2(k + 1, Len(s)))

FirstN(s, k) == SubSeq(s, 1, Min2(k, Len(s)))

(* the cut one too low: two prices go through the cleaning steps *)
MinCleanableOff == 3 - 1

MinCleanable == 3          \* line 608: len(raw_prices) < 3

(* without the test of line 605 the mean of no prices divides by zero *)
InsufficientResultUnguarded(raw_prices) ==
    IF raw_prices = <<>>
    THEN [raised |-> "ZeroDivisionError"]
    ELSE LET avg == SeqSum(raw_prices) \div Len(raw_prices)
         IN  [low |-> avg, average |-> avg, high |-> avg,
              items_removed |-> 0, cleaned_count |-> Len(raw_prices)]

(* Lines 605-610: the returns taken before any cleaning *)

InsufficientResult(raw_prices) ==
    IF raw_prices = <<>>
    THEN [low |-> 0, average |-> 0, high |-> 0,
          items_removed |-> 0, cleaned_count |-> 0]
    ELSE LET avg == SeqSum(raw_prices) \div Len(raw_prices)
         IN  [low |-> avg, average |-> avg, high |-> avg,
              items_removed |-> 0, cleaned_count |-> Len(raw_prices)]

(* line 606 copied to line 674 unchanged *)
AllRemovedResultCopied(original_count) ==
    [low |-> 0, average |-> 0, high |-> 0,
     items_removed |-> 0, cleaned_count |-> 0]

(* Line 674: the return taken when cleaning leaves nothing *)
AllRemovedResult(original_count) ==
    [low |-> 0, average |-> 0, high |-> 0,
     items_removed |-> original_count, cleaned_count |-> 0]

(* The whole function: its return value (ret), the return taken (path) and,
   for the paths that run the cleaning steps, the locals at the return
   (cleaned_prices, removed_items) with the values cleaned_prices held after
   step 1 (after_keywords) and after step 2 (before_iqr) *)
AnalyzeLocals(raw_prices, part, raw_titles, minimum) ==
    IF raw_prices = <<>>
    THEN [ret |-> InsufficientResult(raw_prices), path |-> "empty"]
    ELSE IF Len(raw_prices) < MinCleanable
    THEN [ret |-> InsufficientResult(raw_prices), path |-> "few"]
    ELSE LET original_count == Len(raw_prices)
             step1 == KeywordStage(raw_prices, part, raw_titles)
             step2 == ThresholdStage(step1, minimum)
             step3 == IqrStage(step2)
             cleaned_prices == step3.cleaned_prices
         IN  IF cleaned_prices = <<>>
             THEN [ret |-> AllRemovedResult(original_count),
                   path |-> "all_removed",
                   after_keywords |-> step1.cleaned_prices,
                   before_iqr |-> step2.cleaned_prices,
                   cleaned_prices |-> cleaned_prices,
                   removed_items |-> step3.removed_items]
             ELSE LET sorted_prices == sorted(cleaned_prices)
                      t == SeparateTiers(RoundedTiers(sorted_prices), sorted_prices)
                  IN  [ret |-> [low |-> t.budget_tier,
                                average |-> t.standard_tier,
                                high |-> t.premium_tier,
                                raw_p10 |-> t.raw_p10,
                                raw_p30 |-> t.raw_p30,
                                raw_p50 |-> t.raw_p50,
                                items_removed |-> original_count - Len(cleaned_prices),
                                cleaned_count |-> Len(cleaned_prices),
                                removed_details |-> FirstN(step3.removed_items, 3),
                                final_range |-> SeqMax(cleaned_prices) - SeqMin(cleaned_prices),
                                minimum_price |-> minimum],
                       path |-> "tiers",
                       after_keywords |-> step1.cleaned_prices,
                       before_iqr |-> step2.cleaned_prices,
                       cleaned_prices |-> cleaned_prices,
                       removed_items |-> step3.removed_items]

analyze_price_distribution(raw_prices, part, raw_titles, minimum) ==
    AnalyzeLocals(raw_prices, part, raw_titles, minimum).ret

-----------------------------------------------------------------------------
(* Listings.  search_ebay_parts builds each raw item with the keys price,
   shipping, total_price, title, ...; the analyzers read total_price and
   title. *)

item_total_price(item) ==
    IF "total_price" \in DOMAIN item THEN item.total_price
    ELSE IF "price" \in DOMAIN item THEN item.price
    ELSE 0

item_title(item) == IF "title" \in DOMAIN item THEN item.title ELSE ""

(* the titles left out of the call *)
raw_titles_dropped(items) == <<>>

(* raw_prices and raw_titles as both fallback sites build them *)
raw_prices_of(items) == [i \in 1..Len(items) |-> item_total_price(items[i])]
raw_titles_of(items) == [i \in 1..Len(items) |-> item_title(items[i])]

(* the minimum price left out of the call, so its default 0 applies *)
StatisticalFallbackNoMinimum(items, part, minimum) ==
    AnalyzeLocals(raw_prices_of(items), part, raw_titles_of(items), 0)

(* self._analyze_price_distribution(raw_prices, part_name, raw_titles, minimum_price) *)
StatisticalFallback(items, part, minimum) ==
    AnalyzeLocals(raw_prices_of(items), part, raw_titles_of(items), minimum)

-----------------------------------------------------------------------------
(* The model's response, as json.loads leaves it once the text is stripped of
   its code fence.  A JSON value is a number, a string or null; an object is
   a function from its keys to JSON values. *)

Num(n) == [t |-> "number", v |-> n]
Str(x) == [t |-> "string", v |-> x]
Null == [t |-> "null"]

Digits == "0123456789"
DigitSet == {SubSeq(Digits, i, i) : i \in 1..Len(Digits)}
DigitValue ==
    [c \in DigitSet |->
        (CHOOSE j \in 1..Len(Digits) : SubSeq(Digits, j, j) = c) - 1]

RECURSIVE digits_value(_, _, _)
digits_value(x, i, acc) ==
    IF i > Len(x) THEN acc
    ELSE digits_value(x, i + 1, 10 * acc + DigitValue[SubSeq(x, i, i)])

(* float(): a number as it is, a string of decimal digits parsed, anything
   else of the model's values raises (ValueError for a string, TypeError for
   null) *)
float_ok(j) ==
    \/ j.t = "number"
    \/ /\ j.t = "string"
       /\ Len(j.v) > 0
       /\ \A i \in 1..Len(j.v) : SubSeq(j.v, i, i) \in DigitSet

float(j) == IF j.t = "number" THEN j.v ELSE Dollars(digits_value(j.v, 1, 0))

required_keys ==
    <<"low_price", "average_price", "high_price", "items_analyzed",
      "items_filtered_out", "reasoning">>

(* all(key in result for key in required_keys), for a response that parsed:
   a JSON array holds none of the keys *)
has_required_keys(resp) ==
    /\ resp.kind = "object"
    /\ \A k \in 1..Len(required_keys) : required_keys[k] \in DOMAIN resp.obj

(* Lines 570-583 run without raising: reasoning can be sliced, the tiers
   convert, the two counts subtract *)
fields_usable(obj) ==
    /\ obj.reasoning.t = "string"
    /\ float_ok(obj.low_price)
    /\ float_ok(obj.average_price)
    /\ float_ok(obj.high_price)
    /\ obj.items_analyzed.t = "number"
    /\ obj.items_filtered_out.t = "number"

(* response.text is read, json.loads returns, the keys are there and the
   return statement evaluates *)
response_accepted(resp) ==
    /\ has_required_keys(resp)
    /\ fields_usable(resp.obj)

(* the tiers put in order before they are returned *)
ai_result_ordered(obj) ==
    [low |-> Min2(float(obj.low_price), float(obj.high_price)),
     average |-> float(obj.average_price),
     high |-> Max2(float(obj.low_price), float(obj.high_price)),
     items_analyzed |-> obj.items_analyzed.v,
     items_filtered_out |-> obj.items_filtered_out.v,
     reasoning |-> obj.reasoning.v,
     cleaned_count |-> obj.items_analyzed.v - obj.items_filtered_out.v,
     items_removed |-> obj.items_filtered_out.v]

ai_result(obj) ==
    [low |-> float(obj.low_price),
     average |-> float(obj.average_price),
     high |-> float(obj.high_price),
     items_analyzed |-> obj.items_analyzed.v,
     items_filtered_out |-> obj.items_filtered_out.v,
     reasoning |-> obj.reasoning.v,
     cleaned_count |-> obj.items_analyzed.v - obj.items_filtered_out.v,
     items_removed |-> obj.items_filtered_out.v]

(* one attempt too many *)
max_retries_off == 3 + 1

max_retries == 3

NoData ==
    [low |-> 0, average |-> 0, high |-> 0, items_analyzed |-> 0,
     items_filtered_out |-> 0, reasoning |-> "No data provided"]

NoLocals == [path |-> "none"]
NoResponse == [kind |-> "none"]
NoResult == [pending |-> TRUE]

-----------------------------------------------------------------------------
(* Inputs *)

Listing(dollars, title) == [total_price |-> Dollars(dollars), title |-> title]

MaxItems == 3      \* longest listing set handed to the AI analyzer
MaxHead == 3       \* longest freely ordered part of a directly analysed set
MaxBulk == 9       \* longest run of equal listings that follows it

AiKinds ==
    {Listing(52, "used engine block"), Listing(70, "used engine block"),
     Listing(70, "Gasket Set")}

HeadKinds ==
    {Listing(25, "used engine block"), Listing(52, "used engine block"),
     Listing(70, "used engine block"), Listing(900, "used engine block"),
     Listing(70, "Gasket Set")}

BulkKinds == {Listing(52, "used engine block"), Listing(300, "OEM Engine")}

PartNames == {"Engine", "radio"}
MinimumPrices == {0, Dollars(60)}

SeqsUpTo(S, n) == UNION {[1..k -> S] : k \in 0..n}

Repeat(x, n) == [i \in 1..n |-> x]

AiInputs == SeqsUpTo(AiKinds, MaxItems)

Block(d) == Listing(d, "used engine block")
Gasket(d) == Listing(d, "Gasket Set")
(* a listing that carries no title: its title is read as "" *)
Untitled(d) == [total_price |-> Dollars(d)]

(* Ten prices with Q1 = 52 and Q3 = 70, so that 25 and 97 lie on the bounds
   of the IQR step *)
TenOnBounds ==
    <<Block(70), Block(52), Block(25), Block(52), Block(97),
      Block(52), Block(70), Block(52), Block(70), Block(52)>>

(* The inputs the documentation works through ([100, 200], five prices of
   300, and 52, 52, 70) and the inputs on the edges of the cleaning steps,
   of the regimes and of the separation rule *)
ExampleInputs ==
    {<<Listing(100, "used engine block"), Listing(200, "used engine block")>>,
     Repeat(Listing(300, "OEM Engine"), 5),
     <<Listing(52, "used engine block"), Listing(52, "used engine block"),
       Listing(70, "used engine block")>>,
     TenOnBounds,
     <<Gasket(900), Block(900), Gasket(900)>> \o TenOnBounds,
     <<Gasket(25), Block(900), Gasket(900), Gasket(70)>> \o TenOnBounds,
     <<Block(70), Block(40), Block(900), Block(52), Block(97), Block(60),
       Block(52), Block(90), Block(70), Block(80)>>,
     <<Block(10), Block(20), Block(30), Block(40)>>,
     <<Block(52), Block(62), Block(52)>>,
     <<Block(52), Block(52), Block(102), Block(52)>>,
     <<Block(252), Block(52), Block(52), Block(52)>>,
     <<Gasket(70), Block(216), Block(205)>>,
     <<Untitled(70), Gasket(70), Block(52)>>}

(* minimum prices tried on the example inputs only: a negative one (min_price
   is float() of a CSV cell) and one equal to a listed price *)
ExampleMinimums == {0 - Dollars(5), Dollars(52)}

StatInputs ==
    ExampleInputs \cup
    {h \o b : h \in SeqsUpTo(HeadKinds, MaxHead),
              b \in {<<>>} \cup {Repeat(k, n) : k \in BulkKinds,
                                                n \in (MaxBulk - 2)..MaxBulk}}

(* self.gemini_model is set only when use_ai_analysis is true (lines 30-40) *)
Configs ==
    {[gemini_model |-> TRUE, use_ai_analysis |-> TRUE],
     [gemini_model |-> FALSE, use_ai_analysis |-> TRUE],
     [gemini_model |-> FALSE, use_ai_analysis |-> FALSE]}

Without(obj, k) == [x \in DOMAIN obj \ {k} |-> obj[x]]
With(obj, k, v) == [x \in DOMAIN obj \cup {k} |-> IF x = k THEN v ELSE obj[x]]

BaseObject(low) ==
    [low_price |-> Num(low), average_price |-> Num(Dollars(80)),
     high_price |-> Num(Dollars(100)), items_analyzed |-> Num(3),
     items_filtered_out |-> Num(1), reasoning |-> Str("ok")]

ResponseObjects ==
    LET b == BaseObject(Dollars(40))
        keys == {required_keys[k] : k \in 1..Len(required_keys)}
    IN  {b, BaseObject(Dollars(120))}
        \cup {Without(b, k) : k \in keys}
        \cup {With(b, "confidence", Str("high")),
              Without(With(b, "confidence", Str("high")), "reasoning")}
        \cup {With(b, k, Str("n/a")) : k \in {"low_price", "average_price", "high_price"}}
        \cup {With(b, "high_price", Null), With(b, "low_price", Str("45")),
              With(b, "items_analyzed", Str("three")), With(b, "reasoning", Null)}

Responses ==
    {[kind |-> "no_text"], [kind |-> "not_json"], [kind |-> "array"]}
    \cup {[kind |-> "object", obj |-> o] : o \in ResponseObjects}

-----------------------------------------------------------------------------
(* _analyze_prices_with_ai *)

(* no call has made a step yet *)
InitCall ==
    /\ RunIdle
    /\ attempt = 0
    /\ calls = 0
    /\ failures = 0
    /\ response = NoResponse
    /\ result = NoResult
    /\ returned_by = "none"
    /\ locals = NoLocals

InitCommon ==
    /\ RunIdle
    /\ part_name \in PartNames
    /\ minimum_price \in MinimumPrices
    /\ attempt = 0
    /\ calls = 0
    /\ failures = 0
    /\ response = NoResponse
    /\ result = NoResult
    /\ returned_by = "none"
    /\ locals = NoLocals

Init ==
    /\ raw_items \in AiInputs
    /\ \E c \in Configs :
          /\ gemini_model = c.gemini_model
          /\ use_ai_analysis = c.use_ai_analysis
    /\ pc = "entry"
    /\ InitCommon

ReturnFallback(site) ==
    LET st == StatisticalFallback(raw_items, part_name, minimum_price)
    IN  /\ result' = st.ret
        /\ locals' = st
        /\ returned_by' = site
        /\ pc' = "done"

(* lines 509-518 *)
Delegate ==
    /\ pc = "entry"
    /\ ~gemini_model \/ ~use_ai_analysis
    /\ ReturnFallback("delegate")
    /\ UNCHANGED run_vars
    /\ UNCHANGED <<raw_items, part_name, minimum_price, gemini_model,
                   use_ai_analysis, attempt, calls, failures, response>>

(* lines 520-521 *)
ReturnNoData ==
    /\ pc = "entry"
    /\ gemini_model /\ use_ai_analysis
    /\ raw_items = <<>>
    /\ result' = NoData
    /\ returned_by' = "no_data"
    /\ pc' = "done"
    /\ UNCHANGED run_vars
    /\ UNCHANGED <<raw_items, part_name, minimum_price, gemini_model,
                   use_ai_analysis, attempt, calls, failures, response, locals>>

(* lines 523-535: the prompt is built and the retry loop entered *)
BuildPrompt ==
    /\ pc = "entry"
    /\ gemini_model /\ use_ai_analysis
    /\ raw_items # <<>>
    /\ attempt' = 0
    /\ pc' = "generate"
    /\ UNCHANGED run_vars
    /\ UNCHANGED <<raw_items, part_name, minimum_price, gemini_model,
                   use_ai_analysis, calls, failures, response, result,
                   returned_by, locals>>

(* lines 537-544: generate_content returns, break *)
GenerateReturns ==
    /\ pc = "generate"
    /\ calls' = calls + 1
    /\ response' \in Responses
    /\ pc' = "parse"
    /\ UNCHANGED run_vars
    /\ UNCHANGED <<raw_items, part_name, minimum_price, gemini_model,
                   use_ai_analysis, attempt, failures, result, returned_by, locals>>

(* lines 545-551: generate_content raises; the last attempt re-raises into
   the handler of line 589, which falls through to lines 593-598 *)
GenerateRaises ==
    /\ pc = "generate"
    /\ calls' = calls + 1
    /\ failures' = failures + 1
    /\ IF attempt = max_retries - 1
       THEN /\ ReturnFallback("fallback")
            /\ UNCHANGED attempt
       ELSE /\ attempt' = attempt + 1
            /\ UNCHANGED <<pc, result, returned_by, locals>>
    /\ UNCHANGED run_vars
    /\ UNCHANGED <<raw_items, part_name, minimum_price, gemini_model,
                   use_ai_analysis, response>>

(* no validation: a missing key read with a default, as result.get(key, 0) *)
ParseReturnsLenient ==
    /\ pc = "parse"
    /\ response.kind = "object"
    /\ LET obj == response.obj
           get(k) == IF k \in DOMAIN obj /\ obj[k].t = "number" THEN obj[k].v ELSE 0
       IN  result' = [low |-> get("low_price"),
                      average |-> get("average_price"),
                      high |-> get("high_price"),
                      items_analyzed |-> get("items_analyzed"),
                      items_filtered_out |-> get("items_filtered_out"),
                      reasoning |-> "",
                      cleaned_count |-> get("items_analyzed") - get("items_filtered_out"),
                      items_removed |-> get("items_filtered_out")]
    /\ returned_by' = "ai"
    /\ pc' = "done"
    /\ UNCHANGED run_vars
    /\ UNCHANGED <<raw_items, part_name, minimum_price, gemini_model,
                   use_ai_analysis, attempt, calls, failures, response, locals>>

(* lines 553-583: the response parses, validates and is returned *)
ParseReturns ==
    /\ pc = "parse"
    /\ response_accepted(response)
    /\ result' = ai_result(response.obj)
    /\ returned_by' = "ai"
    /\ pc' = "done"
    /\ UNCHANGED run_vars
    /\ UNCHANGED <<raw_items, part_name, minimum_price, gemini_model,
                   use_ai_analysis, attempt, calls, failures, response, locals>>

(* lines 553-598: an exception between reading response.text and the return
   statement is caught (lines 585-591) and the function falls back *)
ParseRaises ==
    /\ pc = "parse"
    /\ ~response_accepted(response)
    /\ ReturnFallback("fallback")
    /\ UNCHANGED run_vars
    /\ UNCHANGED <<raw_items, part_name, minimum_price, gemini_model,
                   use_ai_analysis, attempt, calls, failures, response>>

Next ==
    \/ Delegate
    \/ ReturnNoData
    \/ BuildPrompt
    \/ GenerateReturns
    \/ GenerateRaises
    \/ ParseReturns
    \/ ParseRaises

Spec == Init /\ [][Next]_vars

(* The function is straight-line code around blocking calls that return or
   raise, so a call that has started takes its next step.  The retry loop
   does not read the listings, so the fair runs take the short listing sets
   on which the fallback returns before any cleaning. *)
MaxFairItems == 1

InitFair ==
    /\ raw_items \in SeqsUpTo(AiKinds, MaxFairItems)
    /\ \E c \in Configs :
          /\ gemini_model = c.gemini_model
          /\ use_ai_analysis = c.use_ai_analysis
    /\ pc = "entry"
    /\ InitCommon

FairSpec == InitFair /\ [][Next]_vars /\ WF_vars(Next)

-----------------------------------------------------------------------------
(* _analyze_price_distribution called on the totals and titles of a listing set *)

InitStat ==
    /\ raw_items \in StatInputs
    /\ gemini_model = FALSE
    /\ use_ai_analysis = FALSE
    /\ pc = "analyze"
    /\ part_name \in PartNames
    /\ \/ minimum_price \in MinimumPrices
       \/ raw_items \in ExampleInputs /\ minimum_price \in ExampleMinimums
    /\ InitCall

AnalyzeCall ==
    /\ pc = "analyze"
    /\ LET st == AnalyzeLocals(raw_prices_of(raw_items), part_name,
                               raw_titles_of(raw_items), minimum_price)
       IN  /\ result' = st.ret
           /\ locals' = st
    /\ returned_by' = "direct"
    /\ pc' = "done"
    /\ UNCHANGED run_vars
    /\ UNCHANGED <<raw_items, part_name, minimum_price, gemini_model,
                   use_ai_analysis, attempt, calls, failures, response>>

NextStat == AnalyzeCall

SpecStat == InitStat /\ [][NextStat]_vars

-----------------------------------------------------------------------------
(* The helper functions called on their own: the arguments are the locals of
   the call and result is what it returns *)

InitHelper ==
    /\ RunIdle
    /\ raw_items = <<>>
    /\ part_name = "radio"
    /\ minimum_price = 0
    /\ gemini_model = FALSE
    /\ use_ai_analysis = FALSE
    /\ attempt = 0
    /\ calls = 0
    /\ failures = 0
    /\ response = NoResponse
    /\ result = NoResult
    /\ returned_by = "none"

HelperReturns(function) ==
    /\ pc' = "done"
    /\ returned_by' = function
    /\ UNCHANGED run_vars
    /\ UNCHANGED <<raw_items, part_name, minimum_price, gemini_model,
                   use_ai_analysis, attempt, calls, failures, response, locals>>

(* get_percentile(data, percentile) on the ascending lists it is called on *)
MaxData == 4       \* longest list handed to get_percentile

PercentileValues == {Dollars(10), Dollars(20), Dollars(30), Dollars(40)}

AscendingLists ==
    UNION {{s \in [1..k -> PercentileValues] :
                \A i \in 1..(k - 1) : s[i] <= s[i + 1]} : k \in 1..MaxData}

InitPercentile ==
    /\ InitHelper
    /\ pc = "get_percentile"
    /\ locals \in {[data |-> d, percentile |-> p] : d \in AscendingLists,
                                                   p \in 0..100}

PercentileCall ==
    /\ pc = "get_percentile"
    /\ result' = get_percentile(locals.data, locals.percentile)
    /\ HelperReturns("get_percentile")

NextPercentile == PercentileCall

SpecPercentile == InitPercentile /\ [][NextPercentile]_vars

(* smart_round(price) and small_round(price) on raw percentiles between 0 and
   MaxRoundHalves half dollars *)
MaxRoundHalves == 1100

RoundPrices == {h * (Unit \div 2) : h \in 0..MaxRoundHalves}

InitRound ==
    /\ InitHelper
    /\ \/ pc = "smart_round"
       \/ pc = "small_round"
    /\ locals \in {[price |-> p] : p \in RoundPrices}

SmartRoundCall ==
    /\ pc = "smart_round"
    /\ result' = smart_round(locals.price)
    /\ HelperReturns("smart_round")

SmallRoundCall ==
    /\ pc = "small_round"
    /\ result' = small_round(locals.price)
    /\ HelperReturns("small_round")

NextRound == SmartRoundCall \/ SmallRoundCall

SpecRound == InitRound /\ [][NextRound]_vars

-----------------------------------------------------------------------------
(* calculate_recommended_bid(parts_prices, multiplier).  parts_prices maps a
   part to its result; the function reads the values only, so the model
   holds them as the list parts_prices.values().  A multiplier is held in
   hundredths. *)

DefaultMultiplier == 20     \* line 972: multiplier: float = 0.2

PartDict(d) == [isdict |-> TRUE, value |-> d]
PartScalar(x) == [isdict |-> FALSE, value |-> x]

(* part_prices.get(tier, 0) *)
get(d, tier) == IF tier \in DOMAIN d THEN d[tier] ELSE 0

(* the old-format branch left out: a scalar adds nothing *)
RECURSIVE SumPartsDictsOnly(_, _, _)
SumPartsDictsOnly(values, i, totals) ==
    IF i > Len(values) THEN totals
    ELSE LET part_prices == values[i]
         IN  IF part_prices.isdict
             THEN SumPartsDictsOnly(values, i + 1,
                      [low |-> totals.low + get(part_prices.value, "low"),
                       average |-> totals.average + get(part_prices.value, "average"),
                       high |-> totals.high + get(part_prices.value, "high")])
             ELSE SumPartsDictsOnly(values, i + 1, totals)

(* the loop of lines 976-985 *)
RECURSIVE SumParts(_, _, _)
SumParts(values, i, totals) ==
    IF i > Len(values) THEN totals
    ELSE LET part_prices == values[i]
         IN  IF part_prices.isdict
             THEN SumParts(values, i + 1,
                      [low |-> totals.low + get(part_prices.value, "low"),
                       average |-> totals.average + get(part_prices.value, "average"),
                       high |-> totals.high + get(part_prices.value, "high")])
             ELSE SumParts(values, i + 1,
                      [low |-> totals.low + part_prices.value,
                       average |-> totals.average + part_prices.value,
                       high |-> totals.high + part_prices.value])

calculate_recommended_bid(values, multiplier) ==
    LET totals == SumParts(values, 1, [low |-> 0, average |-> 0, high |-> 0])
        bids == [low |-> (totals.low * multiplier) \div 100,
                 average |-> (totals.average * multiplier) \div 100,
                 high |-> (totals.high * multiplier) \div 100]
    IN  [totals |-> totals, bids |-> bids]

MaxParts == 3      \* most parts in one parts_prices

(* what search_ebay_parts stores for a part: the tiers with the metadata of
   the analysis (lines 910-918) or the zero tiers (lines 950 and 968) *)
StoredAnalysis(low, average, high) ==
    PartDict([low |-> Dollars(low), average |-> Dollars(average),
              high |-> Dollars(high), reasoning |-> "", items_analyzed |-> 0,
              items_filtered_out |-> 0, cleaned_count |-> 3])

NoPricesFound == PartDict([low |-> 0, average |-> 0, high |-> 0])

PartResults ==
    {StoredAnalysis(400, 600, 800), StoredAnalysis(600, 900, 1200),
     NoPricesFound, PartScalar(Dollars(50))}

(* the multiplier is left to its default or passed *)
BidArguments ==
    {[parts_prices |-> v] : v \in SeqsUpTo(PartResults, MaxParts)}
    \cup {[parts_prices |-> v, multiplier |-> m] :
              v \in SeqsUpTo(PartResults, MaxParts), m \in {DefaultMultiplier, 25}}

InitBid ==
    /\ InitHelper
    /\ pc = "calculate_recommended_bid"
    /\ locals \in BidArguments

BidCall ==
    /\ pc = "calculate_recommended_bid"
    /\ result' = calculate_recommended_bid(
                     locals.parts_prices,
                     IF "multiplier" \in DOMAIN locals THEN locals.multiplier
                                                      ELSE DefaultMultiplier)
    /\ HelperReturns("calculate_recommended_bid")

NextBid == BidCall

SpecBid == InitBid /\ [][NextBid]_vars

-----------------------------------------------------------------------------
(* _analyze_price_distribution called twice, on a listing set and on a
   reordering of it in which every title stays with its price: result is
   what the first call returns and locals.ret what the second returns *)

MaxPermItems == 3    \* longest listing set of which every order is tried

Reverse(s) == [i \in 1..Len(s) |-> s[Len(s) + 1 - i]]

Rotate(s, k) == [i \in 1..Len(s) |-> s[((i + k - 1) % Len(s)) + 1]]

SwapAdjacent(s, i) ==
    [j \in 1..Len(s) |-> IF j = i THEN s[i + 1]
                         ELSE IF j = i + 1 THEN s[i]
                         ELSE s[j]]

(* the listing set itself, reversed, rotated and with two neighbours
   exchanged: every order of a set of up to 3 listings *)
Reorderings(s) ==
    {s, Reverse(s)}
        \cup {Rotate(s, k) : k \in 1..(Len(s) - 1)}
        \cup {SwapAdjacent(s, i) : i \in 1..(Len(s) - 1)}

PermInputs == SeqsUpTo(HeadKinds, MaxPermItems) \cup ExampleInputs

InitPermute ==
    /\ RunIdle
    /\ raw_items \in PermInputs
    /\ gemini_model = FALSE
    /\ use_ai_analysis = FALSE
    /\ pc = "analyze"
    /\ part_name \in PartNames
    /\ minimum_price \in MinimumPrices
    /\ attempt = 0
    /\ calls = 0
    /\ failures = 0
    /\ response = NoResponse
    /\ result = NoResult
    /\ returned_by = "none"
    /\ \E r \in Reorderings(raw_items) : locals = [reordered |-> r]

AnalyzeOriginal ==
    /\ pc = "analyze"
    /\ result' = analyze_price_distribution(raw_prices_of(raw_items), part_name,
                                            raw_titles_of(raw_items), minimum_price)
    /\ pc' = "again"
    /\ UNCHANGED run_vars
    /\ UNCHANGED <<raw_items, part_name, minimum_price, gemini_model,
                   use_ai_analysis, attempt, calls, failures, response,
                   returned_by, locals>>

AnalyzeReordered ==
    /\ pc = "again"
    /\ locals' = [reordered |-> locals.reordered,
                  ret |-> analyze_price_distribution(
                              raw_prices_of(locals.reordered), part_name,
                              raw_titles_of(locals.reordered), minimum_price)]
    /\ returned_by' = "direct"
    /\ pc' = "done"
    /\ UNCHANGED run_vars
    /\ UNCHANGED <<raw_items, part_name, minimum_price, gemini_model,
                   use_ai_analysis, attempt, calls, failures, response, result>>

NextPermute == AnalyzeOriginal \/ AnalyzeReordered

SpecPermute == InitPermute /\ [][NextPermute]_vars

-----------------------------------------------------------------------------
(* calculate_bid: the run from the VIN to the recommended bid.  events
   records, in the order in which they happen, the HTTP requests the run
   sends, the answers to its searches, the lines it writes to results_text
   (error |-> TRUE for the lines display_error writes), the calls of the
   analyzer and the assignments to parts_prices. *)

Request(to, timeout) == [event |-> "request", to |-> to, timeout |-> timeout]
Message(text) == [event |-> "message", text |-> text, error |-> FALSE]
Error(text) == [event |-> "message", text |-> text, error |-> TRUE]

Vins == {"", "1HGCM8263", "1HGCM82633A004352"}

(* What the VIN service can answer: the request or the decoding of its
   answer raises, or response.json() is a dict whose 'Results' lists
   {'Variable', 'Value'} pairs.  An empty Value stands for "" and for null. *)
VinRaises == [kind |-> "raises"]
VinJson(results) == [kind |-> "json", Results |-> results]
Variable(name, value) == [Variable |-> name, Value |-> value]

VinResponses ==
    {VinRaises,
     VinJson(<<>>),
     VinJson(<<Variable("Make", "HONDA"), Variable("Model", "Accord"),
               Variable("Model Year", "2003")>>),
     VinJson(<<Variable("Make", "HONDA"), Variable("Model", "Accord")>>),
     VinJson(<<Variable("Make", "HONDA"), Variable("Model", ""),
               Variable("Model Year", "2003")>>)}

(* lines 354-360: the keys of vehicle_info the run goes on to read *)
VehicleKey(variable) ==
    CASE variable = "Make" -> "make"
      [] variable = "Model" -> "model"
      [] variable = "Model Year" -> "year"
      [] OTHER -> ""

(* lines 349-401: vehicle_info as the loop over data['Results'] leaves it, a
   later pair overwriting an earlier one, with the 8th character of the VIN *)
vehicle_from(results, v) ==
    LET keys == {VehicleKey(results[i].Variable) : i \in 1..Len(results)} \ {""}
        last(k) == CHOOSE i \in 1..Len(results) :
                       /\ VehicleKey(results[i].Variable) = k
                       /\ \A j \in (i + 1)..Len(results) :
                              VehicleKey(results[j].Variable) # k
    IN  [k \in keys |-> results[last(k)].Value]
            @@ [engine_designation |-> SubSeq(v, 8, 8)]

required_fields == <<"make", "model", "year">>

(* any two of the three fields are enough *)
has_two_required_fields(info) ==
    \E skipped \in 1..Len(required_fields) :
        \A f \in 1..Len(required_fields) :
            f # skipped
                => /\ required_fields[f] \in DOMAIN info
                   /\ info[required_fields[f]] # ""

(* line 404: all(vehicle_info.get(field) for field in required_fields) *)
has_required_fields(info) ==
    \A f \in 1..Len(required_fields) :
        /\ required_fields[f] \in DOMAIN info
        /\ info[required_fields[f]] # ""

(* line 348 and line 404: the response yields a vehicle *)
yields_vehicle(r, v) ==
    /\ r.kind = "json"
    /\ r.Results # <<>>
    /\ has_required_fields(vehicle_from(r.Results, v))

(* the timeout of the first attempt used for every attempt *)
vin_timeout_flat(a) == 15

(* line 340: timeout = 15 + (attempt * 10) *)
vin_timeout(a) == 15 + (a * 10)

vin_attempts == 3         \* line 338: for attempt in range(3)

(* lines 1150-1154 *)
RejectVin ==
    /\ pc = "calculate_bid"
    /\ vin = "" \/ Len(vin) # 17
    /\ events' = Append(events, Error("Invalid VIN"))
    /\ pc' = "done"
    /\ returned_by' = "invalid_vin"
    /\ UNCHANGED <<vin, vehicle_info, ebay_client_id, ebay_client_secret,
                   ebay_access_token, parts_list, marketplace, part_index,
                   query_index, all_items, parts_prices, bid_analysis>>
    /\ UNCHANGED <<attempt, result>>
    /\ UNCHANGED analyzer_vars

(* lines 1156-1165: the call of decode_vin *)
AcceptVin ==
    /\ pc = "calculate_bid"
    /\ vin # "" /\ Len(vin) = 17
    /\ events' = Append(events, Message("Processing VIN..."))
    /\ attempt' = 0
    /\ pc' = "decode_vin"
    /\ UNCHANGED <<vin, vehicle_info, ebay_client_id, ebay_client_secret,
                   ebay_access_token, parts_list, marketplace, part_index,
                   query_index, all_items, parts_prices, bid_analysis>>
    /\ UNCHANGED <<result, returned_by>>
    /\ UNCHANGED analyzer_vars

(* lines 340-344: every attempt sends one request with its own timeout *)
VinRequest == Request("vin", vin_timeout(attempt))

(* the function returns None: at line 431, or by leaving the loop *)
ReturnNone ==
    /\ vehicle_info' = None
    /\ pc' = "decoded"
    /\ UNCHANGED attempt

(* the loop of decode_vin goes round again or is left *)
LoopContinues ==
    IF attempt + 1 < vin_attempts
    THEN /\ attempt' = attempt + 1
         /\ UNCHANGED <<pc, vehicle_info>>
    ELSE ReturnNone

(* lines 425-431: the request or the decoding raises *)
DecodeRaises ==
    /\ pc = "decode_vin"
    /\ VinRaises \in VinResponses
    /\ events' =
          events \o <<VinRequest, Message("Attempt failed")>>
                 \o (IF attempt = 2
                     THEN <<Error("VIN decode failed after 3 attempts")>>
                     ELSE <<>>)
    /\ IF attempt = 2 THEN ReturnNone ELSE LoopContinues
    /\ UNCHANGED <<vin, ebay_client_id, ebay_client_secret,
                   ebay_access_token, parts_list, marketplace, part_index,
                   query_index, all_items, parts_prices, bid_analysis>>
    /\ UNCHANGED <<result, returned_by>>
    /\ UNCHANGED analyzer_vars

(* lines 347-404 with a false test at line 348 or at line 404: nothing is
   written and nothing is raised *)
DecodeIncomplete ==
    /\ pc = "decode_vin"
    /\ \E r \in VinResponses :
          /\ r.kind = "json"
          /\ ~yields_vehicle(r, vin)
    /\ events' = Append(events, VinRequest)
    /\ LoopContinues
    /\ UNCHANGED <<vin, ebay_client_id, ebay_client_secret,
                   ebay_access_token, parts_list, marketplace, part_index,
                   query_index, all_items, parts_prices, bid_analysis>>
    /\ UNCHANGED <<result, returned_by>>
    /\ UNCHANGED analyzer_vars

(* lines 404-423: return vehicle_info *)
DecodeReturnsVehicle ==
    /\ pc = "decode_vin"
    /\ \E r \in VinResponses :
          /\ yields_vehicle(r, vin)
          /\ vehicle_info' = vehicle_from(r.Results, vin)
    /\ events' = events \o <<VinRequest, Message("VIN decoded successfully!")>>
    /\ pc' = "decoded"
    /\ UNCHANGED <<vin, ebay_client_id, ebay_client_secret,
                   ebay_access_token, parts_list, marketplace, part_index,
                   query_index, all_items, parts_prices, bid_analysis>>
    /\ UNCHANGED <<attempt, result, returned_by>>
    /\ UNCHANGED analyzer_vars

(* lines 1166-1168: if not vehicle_info *)
AbortUndecoded ==
    /\ pc = "decoded"
    /\ vehicle_info = None
    /\ events' = Append(events,
                     Error("Could not decode VIN or retrieve vehicle information"))
    /\ pc' = "done"
    /\ returned_by' = "undecoded"
    /\ UNCHANGED <<vin, vehicle_info, ebay_client_id, ebay_client_secret,
                   ebay_access_token, parts_list, marketplace, part_index,
                   query_index, all_items, parts_prices, bid_analysis>>
    /\ UNCHANGED <<attempt, result>>
    /\ UNCHANGED analyzer_vars

(* lines 1170-1177: the call of search_ebay_parts *)
CallSearch ==
    /\ pc = "decoded"
    /\ vehicle_info # None
    /\ events' = events \o <<Message("Vehicle"),
                             Message("Searching for parts prices...")>>
    /\ pc' = "search_ebay_parts"
    /\ UNCHANGED <<vin, vehicle_info, ebay_client_id, ebay_client_secret,
                   ebay_access_token, parts_list, marketplace, part_index,
                   query_index, all_items, parts_prices, bid_analysis>>
    /\ UNCHANGED <<attempt, result, returned_by>>
    /\ UNCHANGED analyzer_vars

-----------------------------------------------------------------------------
(* get_ebay_access_token and search_ebay_parts *)

PartRequest(i, q) ==
    [event |-> "request", to |-> "search", timeout |-> 10, part |-> i, q |-> q]
PartMessage(i, text) ==
    [event |-> "message", text |-> text, error |-> FALSE, part |-> i]
PartError(i, text) ==
    [event |-> "message", text |-> text, error |-> TRUE, part |-> i]
Answer(i, r) == [event |-> "answer", part |-> i, answer |-> r]
AnalyzerCall(i, items) == [event |-> "analyze", part |-> i, raw_items |-> items]
Write(i, key, value) == [event |-> "write", part |-> i, key |-> key, value |-> value]

(* a dict in insertion order: d[key] = value replaces the value of a key
   that is there and appends a key that is not *)
HasKey(d, key) == \E i \in 1..Len(d) : d[i].key = key

Assign(d, key, value) ==
    IF HasKey(d, key)
    THEN [i \in 1..Len(d) |-> IF d[i].key = key
                              THEN [key |-> key, value |-> value]
                              ELSE d[i]]
    ELSE Append(d, [key |-> key, value |-> value])

Values(d) == [i \in 1..Len(d) |-> d[i].value]

(* What the token endpoint can answer: the request raises (raise_for_status
   included), or response.json() is a dict with or without 'access_token' *)
TokenRaises == [kind |-> "raises"]
TokenJson(token_data) == [kind |-> "json", token_data |-> token_data]
Token == "v^1.1#i^1"

TokenResponses ==
    {TokenRaises,
     TokenJson([access_token |-> Token, expires_in |-> 7200]),
     TokenJson([error |-> "invalid_client"])}

(* lines 483-485: token_data.get('access_token') is there and not empty *)
grants_token(r) ==
    /\ r.kind = "json"
    /\ "access_token" \in DOMAIN r.token_data
    /\ r.token_data.access_token # ""

(* Items of a search answer.  An item is a JSON object; a price value, a
   shipping cost value and a title are JSON values (Str, Num, Null). *)
Price(value) == [value |-> Str(value), currency |-> "USD"]
Shipping(value) == [shippingCost |-> Price(value)]

ItemA ==
    [itemId |-> "v1|A", price |-> Price("52"),
     shippingOptions |-> <<Shipping("18")>>, title |-> Str("used engine block")]
ItemARelisted ==
    [itemId |-> "v1|A", price |-> Price("900"), title |-> Str("used engine block")]
ItemG ==
    [itemId |-> "v1|G", price |-> Price("40"),
     shippingOptions |-> <<Shipping("12"), Shipping("5")>>,
     title |-> Str("Gasket Set")]
ItemOver ==
    [itemId |-> "v1|B", price |-> Price("4990"),
     shippingOptions |-> <<Shipping("20")>>, title |-> Str("OEM Engine")]
ItemAtMax ==
    [itemId |-> "v1|M", price |-> Price("4990"),
     shippingOptions |-> <<Shipping("10")>>, title |-> Str("OEM Engine")]
ItemNoId ==
    [price |-> Price("70"),
     shippingOptions |-> <<[shippingCostType |-> "CALCULATED"], Shipping("30")>>]
ItemUnparsable ==
    [itemId |-> "v1|D", price |-> Price("call"), title |-> Str("OEM Engine")]
ItemBadShipping ==
    [itemId |-> "v1|S", price |-> Price("52"),
     shippingOptions |-> <<Shipping("tbd")>>, title |-> Str("OEM Engine")]
ItemNoPrice == [itemId |-> "v1|F", title |-> Str("OEM Engine")]
ItemNullTitle == [itemId |-> "v1|E", price |-> Price("25"), title |-> Null]
ItemNullPrice == [itemId |-> "v1|N", price |-> Null, title |-> Str("OEM Engine")]
ItemNullLocation ==
    [itemId |-> "v1|L", price |-> Price("52"), itemLocation |-> Null,
     title |-> Str("OEM Engine")]

(* What the marketplace can answer to one search: requests.get or
   response.json() raises, the status is not 200, or the status is 200 and
   response.json() is a dict with or without 'itemSummaries' *)
SearchRaises == [kind |-> "raises"]
SearchStatus(status) == [kind |-> "http", status_code |-> status]
SearchJson(data) == [kind |-> "http", status_code |-> 200, data |-> data]
Summaries(items) == SearchJson([itemSummaries |-> items])

FullYear == Summaries(<<ItemA, ItemG, ItemOver, ItemNoId>>)
ShortYear == Summaries(<<ItemARelisted, ItemAtMax, ItemUnparsable, ItemNoId>>)
NullTitled == Summaries(<<ItemNullTitle, ItemA, ItemG>>)
NullTitledPair == Summaries(<<ItemNullTitle, ItemA>>)
Unpriced == Summaries(<<ItemUnparsable, ItemNoPrice, ItemBadShipping>>)
NullPriced == Summaries(<<ItemA, ItemNullPrice>>)
NullLocated == Summaries(<<ItemNullLocation>>)
NoSummaries == SearchJson([total |-> 0])

RichMarket ==
    {SearchRaises, SearchStatus(500), FullYear, ShortYear, NullTitled,
     NullTitledPair, Unpriced, NullPriced, NullLocated, NoSummaries}

CoarseMarkets ==
    {{SearchRaises, FullYear}, {NullTitled, FullYear},
     {ShortYear, Unpriced}, {NullPriced, SearchStatus(500)}}

(* lines 781-787: the two search strings, str(year)[-2:] in the second *)
search_queries(vehicle, part) ==
    LET year == vehicle.year
        short_year == IF Len(year) <= 2 THEN year
                      ELSE SubSeq(year, Len(year) - 1, Len(year))
    IN  <<[year |-> year, make |-> vehicle.make, model |-> vehicle.model,
           search_query |-> part.search_query],
          [year |-> short_year, make |-> vehicle.make,
           model |-> vehicle.model, search_query |-> part.search_query]>>

(* line 820: item.get('itemId', f"unknown_{len(all_items)}") *)
item_id_of(item, all) ==
    IF "itemId" \in DOMAIN item THEN item.itemId
    ELSE "unknown_" \o ToString(Len(all))

(* a later item replacing an earlier one of the same id *)
RECURSIVE AddItemsLastWins(_, _, _)
AddItemsLastWins(all, items, i) ==
    IF i > Len(items) THEN all
    ELSE AddItemsLastWins(Assign(all, item_id_of(items[i], all), items[i]),
                          items, i + 1)

(* lines 819-822 *)
RECURSIVE AddItems(_, _, _)
AddItems(all, items, i) ==
    IF i > Len(items) THEN all
    ELSE LET item_id == item_id_of(items[i], all)
         IN  IF ~HasKey(all, item_id)
             THEN AddItems(Assign(all, item_id, items[i]), items, i + 1)
             ELSE AddItems(all, items, i + 1)

(* line 815: data.get('itemSummaries', []) *)
item_summaries(data) ==
    IF "itemSummaries" \in DOMAIN data THEN data.itemSummaries ELSE <<>>

(* lines 850-865 for one item: the test of line 850 raises TypeError on a
   null price; float() of the price or of the shipping cost raises
   ValueError or TypeError *)
price_test_raises(item) == "price" \in DOMAIN item /\ item.price = Null

has_price(item) == "price" \in DOMAIN item /\ "value" \in DOMAIN item.price

has_shipping_cost(item) ==
    /\ "shippingOptions" \in DOMAIN item
    /\ item.shippingOptions # <<>>
    /\ "shippingCost" \in DOMAIN item.shippingOptions[1]
    /\ "value" \in DOMAIN item.shippingOptions[1].shippingCost

shipping_cost(item) ==
    IF has_shipping_cost(item)
    THEN float(item.shippingOptions[1].shippingCost.value)
    ELSE 0

floats_convert(item) ==
    /\ float_ok(item.price.value)
    /\ has_shipping_cost(item)
          => float_ok(item.shippingOptions[1].shippingCost.value)

max_total_price == 5000      \* line 879: if total_price <= 5000

(* line 890: item.get('itemLocation', {}).get('country', '') raises
   AttributeError on a null itemLocation *)
location_raises(item) == "itemLocation" \in DOMAIN item /\ item.itemLocation = Null

(* lines 884-891: the raw item stored for a listing that is kept (the
   condition and the location, which nothing reads, left out) *)
raw_item(item) ==
    LET price == float(item.price.value)
    IN  [price |-> price,
         shipping |-> shipping_cost(item),
         total_price |-> price + shipping_cost(item),
         title |-> IF "title" \in DOMAIN item THEN item.title ELSE Str("No title"),
         item_id |-> IF "itemId" \in DOMAIN item THEN item.itemId ELSE ""]

(* lines 848-899: the loop over the combined items; raised when an
   exception leaves the loop *)
RECURSIVE ScanItems(_, _, _)
ScanItems(items, i, acc) ==
    IF i > Len(items) THEN [raised |-> FALSE, raw_items |-> acc]
    ELSE LET item == items[i]
         IN  IF price_test_raises(item) THEN [raised |-> TRUE, raw_items |-> acc]
             ELSE IF ~has_price(item) THEN ScanItems(items, i + 1, acc)
             ELSE IF ~floats_convert(item) THEN ScanItems(items, i + 1, acc)
             ELSE IF raw_item(item).total_price <= Dollars(max_total_price)
             THEN IF location_raises(item)
                  THEN [raised |-> TRUE, raw_items |-> acc]
                  ELSE ScanItems(items, i + 1, Append(acc, raw_item(item)))
             ELSE ScanItems(items, i + 1, acc)

(* the listings as the analyzers read them; a null title is read as a
   title only by the calls that raise on it *)
listings_of(items) ==
    [i \in 1..Len(items) |->
        [total_price |-> items[i].total_price,
         title |-> IF items[i].title.t = "string" THEN items[i].title.v ELSE ""]]

has_null_title(items) == \E i \in 1..Len(items) : items[i].title = Null

(* an answer of the model accepted by the AI analyzer *)
AcceptedObjects == {BaseObject(Dollars(40))}

(* _analyze_prices_with_ai(raw_items, part['search_query'], part.get('min_price', 0))
   as search_ebay_parts sees it.  A null title raises AttributeError in the
   loop of line 624 of the statistical analyzer, which 3 or more prices
   reach, and in format_raw_results_for_ai (line 1005), from which the AI
   analyzer falls back to the statistical analyzer.  Otherwise the result of
   the statistical analyzer or, with the AI enabled, the result built from
   an accepted answer is returned. *)
AnalysisOutcomes(items, part) ==
    IF has_null_title(items) /\ Len(items) >= MinCleanable
    THEN {[raised |-> TRUE]}
    ELSE {[raised |-> FALSE,
           ret |-> StatisticalFallback(listings_of(items), part.search_query,
                                       part.min_price).ret]}
         \cup (IF gemini_model /\ use_ai_analysis /\ ~has_null_title(items)
               THEN {[raised |-> FALSE, ret |-> ai_result(o)] : o \in AcceptedObjects}
               ELSE {})

(* price_analysis.get(key, default) *)
get_or(d, key, default) == IF key \in DOMAIN d THEN d[key] ELSE default

(* lines 910-918 *)
stored_analysis(price_analysis) ==
    [low |-> price_analysis.low,
     average |-> price_analysis.average,
     high |-> price_analysis.high,
     reasoning |-> get_or(price_analysis, "reasoning", ""),
     items_analyzed |-> get_or(price_analysis, "items_analyzed", 0),
     items_filtered_out |-> get_or(price_analysis, "items_filtered_out", 0),
     cleaned_count |-> get_or(price_analysis, "cleaned_count", 0)]

(* lines 950 and 968 *)
zero_prices == [low |-> 0, average |-> 0, high |-> 0]

(* search_ebay_parts returns {} before its loop (lines 761-763) *)
ReturnEmpty(shown) ==
    /\ events' = events \o shown
    /\ result' = <<>>
    /\ returned_by' = "no_token"
    /\ pc' = "searched"
    /\ UNCHANGED <<part_index, query_index, all_items, parts_prices>>

(* line 765 and line 778: the loop over parts_list is entered *)
EnterLoop(shown) ==
    /\ events' = events \o shown
    /\ parts_prices' = <<>>
    /\ part_index' = 1
    /\ query_index' = 1
    /\ pc' = "search"
    /\ UNCHANGED <<result, returned_by, all_items>>

(* line 760 with a token held: get_ebay_access_token is not called *)
TokenHeld ==
    /\ pc = "search_ebay_parts"
    /\ ebay_access_token # ""
    /\ EnterLoop(<<Message("Starting eBay parts search...")>>)
    /\ UNCHANGED <<vin, vehicle_info, ebay_client_id, ebay_client_secret,
                   ebay_access_token, parts_list, marketplace, bid_analysis>>
    /\ UNCHANGED attempt
    /\ UNCHANGED analyzer_vars

(* the token request sent without looking at the credentials *)
CredentialsPresentAlways == TRUE

(* line 443: not (not self.ebay_client_id or not self.ebay_client_secret) *)
CredentialsPresent == ebay_client_id # "" /\ ebay_client_secret # ""

(* lines 443-447 and 761-763 *)
CredentialsMissing ==
    /\ pc = "search_ebay_parts"
    /\ ebay_access_token = ""
    /\ ~CredentialsPresent
    /\ ReturnEmpty(<<Message("Starting eBay parts search..."),
                     Message("Authenticating with eBay..."),
                     Error("eBay credentials not found in .env file"),
                     Error("Client ID exists"),
                     Error("Client Secret exists"),
                     Message("Failed to get eBay token, aborting search")>>)
    /\ UNCHANGED <<vin, vehicle_info, ebay_client_id, ebay_client_secret,
                   ebay_access_token, parts_list, marketplace, bid_analysis>>
    /\ UNCHANGED attempt
    /\ UNCHANGED analyzer_vars

(* lines 449-500 with the request raising or answering without a token,
   and lines 761-763 *)
TokenRefused ==
    /\ pc = "search_ebay_parts"
    /\ ebay_access_token = ""
    /\ CredentialsPresent
    /\ \E r \in TokenResponses :
          /\ ~grants_token(r)
          /\ ReturnEmpty(<<Message("Starting eBay parts search..."),
                           Message("Authenticating with eBay..."),
                           Request("token", 10),
                           IF r.kind = "raises"
                           THEN Error("Failed to get eBay access token")
                           ELSE Error("No access token in response"),
                           Message("Failed to get eBay token, aborting search")>>)
    /\ UNCHANGED <<vin, vehicle_info, ebay_client_id, ebay_client_secret,
                   ebay_access_token, parts_list, marketplace, bid_analysis>>
    /\ UNCHANGED attempt
    /\ UNCHANGED analyzer_vars

(* lines 449-488 with a token in the answer *)
TokenGranted ==
    /\ pc = "search_ebay_parts"
    /\ ebay_access_token = ""
    /\ CredentialsPresent
    /\ \E r \in TokenResponses :
          /\ grants_token(r)
          /\ ebay_access_token' = r.token_data.access_token
    /\ EnterLoop(<<Message("Starting eBay parts search..."),
                   Message("Authenticating with eBay..."),
                   Request("token", 10),
                   Message("eBay authentication successful!")>>)
    /\ UNCHANGED <<vin, vehicle_info, ebay_client_id, ebay_client_secret,
                   parts_list, marketplace, bid_analysis>>
    /\ UNCHANGED attempt
    /\ UNCHANGED analyzer_vars

(* a search that also sends the first search of the part after this one *)
SearchTurnAhead(r, found, shown) ==
    LET part == parts_list[part_index]
        q == search_queries(vehicle_info, part)[query_index]
        ahead == IF part_index < Len(parts_list)
                 THEN <<PartRequest(part_index + 1,
                           search_queries(vehicle_info,
                                          parts_list[part_index + 1])[1])>>
                 ELSE <<>>
    IN  /\ r \in marketplace
        /\ events' = events \o <<PartMessage(part_index, "Searching"),
                                 PartRequest(part_index, q)>>
                             \o ahead
                             \o <<Answer(part_index, r),
                                  PartMessage(part_index, shown)>>
        /\ all_items' = found
        /\ query_index' = query_index + 1
        /\ pc' = IF query_index < Len(search_queries(vehicle_info, part))
                 THEN "search" ELSE "process"
        /\ UNCHANGED <<vin, vehicle_info, ebay_client_id, ebay_client_secret,
                       ebay_access_token, parts_list, marketplace, part_index,
                       parts_prices, bid_analysis>>
        /\ UNCHANGED <<attempt, result, returned_by>>
        /\ UNCHANGED analyzer_vars

(* lines 798-827: one turn of the loop over search_queries.  all_items is
   emptied before the first search of a part (line 794). *)
Searching == pc = "search" /\ part_index <= Len(parts_list)

SearchTurn(r, found, shown) ==
    LET part == parts_list[part_index]
        q == search_queries(vehicle_info, part)[query_index]
    IN  /\ r \in marketplace
        /\ events' = events \o <<PartMessage(part_index, "Searching"),
                                 PartRequest(part_index, q),
                                 Answer(part_index, r),
                                 PartMessage(part_index, shown)>>
        /\ all_items' = found
        /\ query_index' = query_index + 1
        /\ pc' = IF query_index < Len(search_queries(vehicle_info, part))
                 THEN "search" ELSE "process"
        /\ UNCHANGED <<vin, vehicle_info, ebay_client_id, ebay_client_secret,
                       ebay_access_token, parts_list, marketplace, part_index,
                       parts_prices, bid_analysis>>
        /\ UNCHANGED <<attempt, result, returned_by>>
        /\ UNCHANGED analyzer_vars

ItemsSoFar == IF query_index = 1 THEN <<>> ELSE all_items

(* lines 825-826: requests.get or response.json() raises *)
SearchFails ==
    /\ Searching
    /\ SearchTurn(SearchRaises, ItemsSoFar, "Error")

(* lines 823-824: a status other than 200 *)
SearchRefused ==
    /\ Searching
    /\ \E r \in marketplace :
          /\ r.kind = "http" /\ r.status_code # 200
          /\ SearchTurn(r, ItemsSoFar, "HTTP status")

(* lines 813-822: a status of 200 *)
SearchAnswers ==
    /\ Searching
    /\ \E r \in marketplace :
          /\ r.kind = "http" /\ r.status_code = 200
          /\ SearchTurn(r, AddItems(ItemsSoFar, item_summaries(r.data), 1),
                        "Found items")

(* a failure of a part that ends the loop and returns what was written *)
ReturnEarly(shown) ==
    /\ events' = events \o shown
    /\ result' = parts_prices
    /\ returned_by' = "parts_prices"
    /\ pc' = "searched"
    /\ UNCHANGED <<vin, vehicle_info, ebay_client_id, ebay_client_secret,
                   ebay_access_token, parts_list, marketplace, part_index,
                   query_index, all_items, parts_prices, bid_analysis>>
    /\ UNCHANGED attempt
    /\ UNCHANGED analyzer_vars

(* the loop over parts_list goes on to its next part *)
NextPart(key, value, shown) ==
    /\ events' = events \o shown
    /\ parts_prices' = Assign(parts_prices, key, value)
    /\ part_index' = part_index + 1
    /\ query_index' = 1
    /\ pc' = "search"
    /\ UNCHANGED <<vin, vehicle_info, ebay_client_id, ebay_client_secret,
                   ebay_access_token, parts_list, marketplace, all_items,
                   bid_analysis>>
    /\ UNCHANGED <<attempt, result, returned_by>>
    /\ UNCHANGED analyzer_vars

Processing == pc = "process"

(* a part without results that ends the run *)
PartWithoutResultsReturns ==
    /\ pc = "process"
    /\ all_items = <<>>
    /\ ReturnEarly(<<PartMessage(part_index, "No results found"),
                     PartError(part_index, "eBay search error")>>)

(* lines 833-836, 848 and 955-968: no item was collected, data is None and
   the test of line 848 raises TypeError *)
PartWithoutResults ==
    /\ Processing
    /\ all_items = <<>>
    /\ LET key == parts_list[part_index].search_query
       IN  NextPart(key, zero_prices,
                    <<PartMessage(part_index, "No results found"),
                      PartError(part_index, "eBay search error"),
                      Write(part_index, key, zero_prices)>>)

(* lines 848-899 and 955-968: an exception leaves the loop over the items *)
PartItemRaises ==
    /\ Processing
    /\ all_items # <<>>
    /\ ScanItems(Values(all_items), 1, <<>>).raised
    /\ LET key == parts_list[part_index].search_query
       IN  NextPart(key, zero_prices,
                    <<PartMessage(part_index, "Combined unique results"),
                      PartError(part_index, "eBay search error"),
                      Write(part_index, key, zero_prices)>>)

(* lines 945-953: no item gave a price *)
PartWithoutPrices ==
    /\ Processing
    /\ all_items # <<>>
    /\ LET scan == ScanItems(Values(all_items), 1, <<>>)
           key == parts_list[part_index].search_query
       IN  /\ ~scan.raised
           /\ scan.raw_items = <<>>
           /\ NextPart(key, zero_prices,
                       <<PartMessage(part_index, "Combined unique results"),
                         Write(part_index, key, zero_prices),
                         PartMessage(part_index, "No valid prices found")>>)

(* an exception of the analyzer that ends the run *)
PartAnalysisRaisesReturns ==
    /\ pc = "process"
    /\ all_items # <<>>
    /\ LET scan == ScanItems(Values(all_items), 1, <<>>)
           part == parts_list[part_index]
       IN  /\ ~scan.raised
           /\ scan.raw_items # <<>>
           /\ \E outcome \in AnalysisOutcomes(scan.raw_items, part) :
                 /\ outcome.raised
                 /\ ReturnEarly(<<PartMessage(part_index, "Combined unique results"),
                                  AnalyzerCall(part_index, scan.raw_items),
                                  PartError(part_index, "eBay search error")>>)

(* lines 901-907 and 955-968: the analyzer raises *)
PartAnalysisRaises ==
    /\ Processing
    /\ all_items # <<>>
    /\ LET scan == ScanItems(Values(all_items), 1, <<>>)
           part == parts_list[part_index]
       IN  /\ ~scan.raised
           /\ scan.raw_items # <<>>
           /\ \E outcome \in AnalysisOutcomes(scan.raw_items, part) :
                 /\ outcome.raised
                 /\ NextPart(part.search_query, zero_prices,
                        <<PartMessage(part_index, "Combined unique results"),
                          AnalyzerCall(part_index, scan.raw_items),
                          PartError(part_index, "eBay search error"),
                          Write(part_index, part.search_query, zero_prices)>>)

(* lines 901-944: the analyzer returns and its result is stored *)
PartAnalyzed ==
    /\ Processing
    /\ all_items # <<>>
    /\ LET scan == ScanItems(Values(all_items), 1, <<>>)
           part == parts_list[part_index]
       IN  /\ ~scan.raised
           /\ scan.raw_items # <<>>
           /\ \E outcome \in AnalysisOutcomes(scan.raw_items, part) :
                 /\ ~outcome.raised
                 /\ NextPart(part.search_query, stored_analysis(outcome.ret),
                        <<PartMessage(part_index, "Combined unique results"),
                          AnalyzerCall(part_index, scan.raw_items),
                          Write(part_index, part.search_query,
                                stored_analysis(outcome.ret)),
                          PartMessage(part_index, "tiers")>>)

(* line 970: return parts_prices *)
ReturnPartsPrices ==
    /\ pc = "search"
    /\ part_index > Len(parts_list)
    /\ result' = parts_prices
    /\ returned_by' = "parts_prices"
    /\ pc' = "searched"
    /\ UNCHANGED run_vars
    /\ UNCHANGED attempt
    /\ UNCHANGED analyzer_vars

(* lines 1178-1180: calculate_recommended_bid(parts_prices) and
   display_results *)
Aggregate ==
    /\ pc = "searched"
    /\ LET values == [i \in 1..Len(result) |-> PartDict(result[i].value)]
       IN  bid_analysis' = calculate_recommended_bid(values, DefaultMultiplier)
    /\ events' = Append(events, [event |-> "aggregate"])
    /\ pc' = "done"
    /\ returned_by' = "displayed"
    /\ UNCHANGED <<vin, vehicle_info, ebay_client_id, ebay_client_secret,
                   ebay_access_token, parts_list, marketplace, part_index,
                   query_index, all_items, parts_prices>>
    /\ UNCHANGED <<attempt, result>>
    /\ UNCHANGED analyzer_vars

(* The configured parts: rows of parts_list.csv (lines 321-326), which may
   repeat a search keyword *)
EnginePart == [search_query |-> "Engine", category_id |-> "33615", min_price |-> 0]
RadioPart == [search_query |-> "radio", category_id |-> "168093",
              min_price |-> Dollars(60)]
PartKinds == {EnginePart, RadioPart}

MaxPartsList == 2     \* longest parts list searched

Accord ==
    [make |-> "HONDA", model |-> "Accord", year |-> "2003",
     engine_designation |-> "3"]

(* no call has made a step: the credentials are or are not configured, and
   a token is or is not left from an earlier run *)
InitEngine ==
    /\ raw_items = <<>>
    /\ part_name = ""
    /\ minimum_price = 0
    /\ gemini_model \in BOOLEAN
    /\ use_ai_analysis = TRUE
    /\ attempt = 0
    /\ calls = 0
    /\ failures = 0
    /\ response = NoResponse
    /\ result = NoResult
    /\ returned_by = "none"
    /\ locals = NoLocals
    /\ ebay_client_id \in {"", "PhoenixA-app-PRD"}
    /\ ebay_client_secret \in {"", "PRD-secret"}
    \* a token is held only after get_ebay_access_token was given both credentials
    /\ ebay_access_token \in {""} \cup (IF CredentialsPresent THEN {Token} ELSE {})
    /\ part_index = 1
    /\ query_index = 1
    /\ all_items = <<>>
    /\ parts_prices = <<>>
    /\ events = <<>>
    /\ bid_analysis = None

(* calculate_bid *)
InitRun ==
    /\ InitEngine
    /\ pc = "calculate_bid"
    /\ vin \in Vins
    /\ vehicle_info = None
    /\ parts_list \in {<<EnginePart>>, <<EnginePart, RadioPart>>}
    /\ marketplace \in CoarseMarkets

NextRun ==
    \/ RejectVin
    \/ AcceptVin
    \/ DecodeRaises
    \/ DecodeIncomplete
    \/ DecodeReturnsVehicle
    \/ AbortUndecoded
    \/ CallSearch
    \/ TokenHeld
    \/ CredentialsMissing
    \/ TokenRefused
    \/ TokenGranted
    \/ SearchFails
    \/ SearchRefused
    \/ SearchAnswers
    \/ PartWithoutResults
    \/ PartItemRaises
    \/ PartWithoutPrices
    \/ PartAnalysisRaises
    \/ PartAnalyzed
    \/ ReturnPartsPrices
    \/ Aggregate

SpecRun == InitRun /\ [][NextRun]_vars

(* search_ebay_parts(vehicle_info) called on a decoded vehicle *)
InitSearch ==
    /\ InitEngine
    /\ pc = "search_ebay_parts"
    /\ vin = "1HGCM82633A004352"
    /\ vehicle_info = Accord
    /\ \/ /\ parts_list \in SeqsUpTo(PartKinds, MaxPartsList)
          /\ marketplace \in CoarseMarkets
       \/ /\ parts_list \in {<<EnginePart>>, <<RadioPart>>}
          /\ marketplace = RichMarket

NextSearch ==
    \/ TokenHeld
    \/ CredentialsMissing
    \/ TokenRefused
    \/ TokenGranted
    \/ SearchFails
    \/ SearchRefused
    \/ SearchAnswers
    \/ PartWithoutResults
    \/ PartItemRaises
    \/ PartWithoutPrices
    \/ PartAnalysisRaises
    \/ PartAnalyzed
    \/ ReturnPartsPrices

SpecSearch == InitSearch /\ [][NextSearch]_vars

-----------------------------------------------------------------------------
(* Properties of the statistical analyzer, checked under SpecStat *)

Returned == pc = "done"
RanCleaning == Returned /\ locals.path \in {"tiers", "all_removed"}

(* the total prices and the titles of the listings, read off the listings *)
RawPrices == [i \in 1..Len(raw_items) |-> raw_items[i].total_price]
RawTitles ==
    [i \in 1..Len(raw_items) |->
        IF "title" \in DOMAIN raw_items[i] THEN raw_items[i].title ELSE ""]

(* what _analyze_price_distribution returns when called on them directly *)
DirectResult ==
    analyze_price_distribution(RawPrices, part_name, RawTitles, minimum_price)

IsOutlierReason(r) == r.why = "Statistical outlier"
IsKeywordReason(r) == r.why = "Miscategorized"
IsThresholdReason(r) == r.why = "Below minimum"

(* C1: whenever the cleaned set has at least 3 prices the returned tiers
   satisfy low <= average <= high, the separation rule having fired or not.
   The code breaks it on 52, 52, 70: the three tiers round to 50, the rule
   fires and low becomes max(45, 52) = 52 > average = 50. *)
C1_TiersOrdered ==
    (Returned /\ locals.path = "tiers" /\ Len(locals.cleaned_prices) >= 3)
        => /\ result.low <= result.average
           /\ result.average <= result.high

(* C7: on 1 or 2 raw prices the three tiers are the arithmetic mean of the
   prices, itemsRemoved is 0 and no filter is applied, whatever the titles,
   the part name and the minimum price *)
C7_FewPricesMean ==
    (Returned /\ Len(raw_items) \in {1, 2})
        => /\ result.low * Len(raw_items) = SeqSum(RawPrices)
           /\ result.average = result.low
           /\ result.high = result.low
           /\ result.items_removed = 0
           /\ result.cleaned_count = Len(raw_items)
           /\ (RawPrices = <<Dollars(100), Dollars(200)>> => result.low = Dollars(150))

(* a 2-listing input with a suspicious title and a price below the minimum,
   returned as the mean of 25 and 70 *)
C7_Witness ==
    /\ Returned
    /\ Len(raw_items) = 2
    /\ lower(part_name) = "engine"
    /\ \E i \in 1..2 : is_suspicious(lower(RawTitles[i]), suspicious_keywords("engine"))
    /\ \E i \in 1..2 : RawPrices[i] < minimum_price
    /\ 2 * result.low = Dollars(25) + Dollars(70)

(* C8: on an empty raw price list the tiers are 0 and itemsRemoved is 0, for
   every part name and minimum price *)
C8_EmptyInputZero ==
    (Returned /\ raw_items = <<>>)
        => /\ DOMAIN result = {"low", "average", "high", "items_removed", "cleaned_count"}
           /\ result.low = 0
           /\ result.average = 0
           /\ result.high = 0
           /\ result.items_removed = 0

C8_Witness ==
    /\ Returned
    /\ raw_items = <<>>
    /\ lower(part_name) = "engine"
    /\ minimum_price > 0
    /\ result.low = 0

(* Every listing is dropped by the keyword step or the threshold step (the
   IQR step keeps the quartile elements, so it never empties a set) *)
DroppedBeforeIqr(i) ==
    \/ is_suspicious(lower(RawTitles[i]), suspicious_keywords(lower(part_name)))
    \/ minimum_price > 0 /\ RawPrices[i] < minimum_price

(* C9: when at least 3 raw prices are given and the filters remove every one
   of them, the tiers are 0, itemsRemoved is the number of raw prices and the
   cleaned count is 0 *)
C9_AllRemovedZero ==
    (Returned /\ Len(raw_items) >= 3
        /\ (locals.cleaned_prices = <<>> \/ \A i \in 1..Len(raw_items) : DroppedBeforeIqr(i)))
        => /\ result.low = 0
           /\ result.average = 0
           /\ result.high = 0
           /\ result.items_removed = Len(raw_items)
           /\ result.cleaned_count = 0
           /\ locals.cleaned_prices = <<>>

(* a set emptied by the keyword step and the threshold step together *)
C9_Witness ==
    /\ Returned
    /\ Len(raw_items) >= 3
    /\ locals.path = "all_removed"
    /\ \E i \in 1..Len(locals.removed_items) : IsKeywordReason(locals.removed_items[i])
    /\ \E i \in 1..Len(locals.removed_items) : IsThresholdReason(locals.removed_items[i])
    /\ result.items_removed = Len(raw_items)

(* C10: when fewer than 10 prices survive the keyword and threshold steps the
   IQR step removes nothing: the prices that reach percentile estimation are
   those survivors and no statistical-outlier reason is recorded, however many
   raw prices there were *)
C10_IqrSkippedBelowTen ==
    (RanCleaning /\ Len(locals.before_iqr) < 10)
        => /\ locals.cleaned_prices = locals.before_iqr
           /\ \A i \in 1..Len(locals.removed_items) :
                  ~IsOutlierReason(locals.removed_items[i])

(* 10 raw prices of which 9 survive, 900 among eight of 52: the IQR step
   would drop the 900 had it run *)
C10_Witness ==
    /\ RanCleaning
    /\ Len(raw_items) >= 10
    /\ Len(locals.before_iqr) = 9
    /\ SeqMax(locals.before_iqr) = Dollars(900)
    /\ SeqMin(locals.before_iqr) = Dollars(52)
    /\ locals.cleaned_prices = locals.before_iqr

(* the element at 0-based index k of a list sorted ascending, told by counting:
   at most k elements are smaller and more than k are smaller or equal *)
OrderStatistic(prices, k) ==
    CHOOSE v \in {prices[i] : i \in 1..Len(prices)} :
        /\ Cardinality({i \in 1..Len(prices) : prices[i] < v}) <= k
        /\ k < Cardinality({i \in 1..Len(prices) : prices[i] <= v})

PositionalQ1(prices) == OrderStatistic(prices, Len(prices) \div 4)
PositionalQ3(prices) == OrderStatistic(prices, (3 * Len(prices)) \div 4)

(* Q1 - 1.5*(Q3-Q1) <= p <= Q3 + 1.5*(Q3-Q1), both sides doubled *)
WithinIqrBounds(p, prices) ==
    LET q1 == PositionalQ1(prices)
        q3 == PositionalQ3(prices)
    IN  /\ 2 * q1 - 3 * (q3 - q1) <= 2 * p
        /\ 2 * p <= 2 * q3 + 3 * (q3 - q1)

KeptByIqr(p) == WithinIqrBounds(p, locals.before_iqr)
DroppedByIqr(p) == ~WithinIqrBounds(p, locals.before_iqr)

(* the prices of the recorded reasons of one kind, in recording order *)
OutlierReasonPrices ==
    LET outliers == SelectSeq(locals.removed_items, IsOutlierReason)
    IN  [i \in 1..Len(outliers) |-> outliers[i].price]

(* C11: when 10 or more prices survive the keyword and threshold steps, the
   IQR step takes Q1 and Q3 at indices floor(n/4) and floor(3n/4) of the
   sorted survivors and keeps exactly the survivors p with
   Q1 - 1.5*IQR <= p <= Q3 + 1.5*IQR (a price on a bound is kept); the
   quartiles are those of the survivors, not of the raw prices *)
C11_IqrPositionalQuartiles ==
    (RanCleaning /\ Len(locals.before_iqr) >= 10)
        => /\ locals.cleaned_prices = SelectSeq(locals.before_iqr, KeptByIqr)
           /\ OutlierReasonPrices = SelectSeq(locals.before_iqr, DroppedByIqr)

(* 11 survivors with Q1 = 52 and Q3 = 70: 25 and 97 lie on the bounds and are
   kept, 900 is dropped, and the two listings removed by the keyword step
   would have moved Q3 *)
C11_Witness ==
    /\ RanCleaning
    /\ Len(locals.before_iqr) >= 10
    /\ Len(RawPrices) > Len(locals.before_iqr)
    /\ PositionalQ1(locals.before_iqr) = Dollars(52)
    /\ PositionalQ3(locals.before_iqr) = Dollars(70)
    /\ PositionalQ3(RawPrices) # PositionalQ3(locals.before_iqr)
    /\ SeqMin(locals.cleaned_prices) = Dollars(25)
    /\ SeqMax(locals.cleaned_prices) = Dollars(97)
    /\ OutlierReasonPrices = <<Dollars(900)>>

ReturnedTiers == Returned /\ locals.path = "tiers"

(* the cleaned set as the percentile estimation sees it *)
CleanedSorted == sorted(locals.cleaned_prices)

(* the three tiers are as rounded: the separation rule, which applies only
   to three equal rounded tiers, has nothing to act on *)
TiersAre(budget, standard, premium) ==
    /\ result.average = standard
    /\ ~(budget = standard /\ standard = premium)
          => result.low = budget /\ result.high = premium

(* C13: the regime is chosen by the size n of the cleaned set after all three
   filters: for n >= 10 the tiers are the 10th, 30th and 50th percentiles
   rounded with the standard increments, for n < 10 the 5th, 25th and 50th
   rounded with the small-sample increments, also when the IQR step ran on 10
   or more prices and left fewer than 10 *)
C13_RegimeByCleanedSize ==
    ReturnedTiers
        => IF Len(locals.cleaned_prices) >= 10
           THEN /\ result.raw_p10 = get_percentile(CleanedSorted, 10)
                /\ result.raw_p30 = get_percentile(CleanedSorted, 30)
                /\ result.raw_p50 = get_percentile(CleanedSorted, 50)
                /\ TiersAre(smart_round(result.raw_p10), smart_round(result.raw_p30),
                            smart_round(result.raw_p50))
           ELSE /\ result.raw_p10 = get_percentile(CleanedSorted, 5)
                /\ result.raw_p30 = get_percentile(CleanedSorted, 25)
                /\ result.raw_p50 = get_percentile(CleanedSorted, 50)
                /\ TiersAre(small_round(result.raw_p10), small_round(result.raw_p30),
                            small_round(result.raw_p50))

(* ten raw prices reach the IQR step, which drops the 900 and leaves nine:
   the small-sample regime gives 45, 50, 70 where the standard one would give
   50, 55, 70 *)
C13_Witness ==
    /\ ReturnedTiers
    /\ Len(raw_items) >= 10
    /\ Len(locals.before_iqr) >= 10
    /\ Len(locals.cleaned_prices) = 9
    /\ result.low = Dollars(45)
    /\ result.average = Dollars(50)
    /\ result.high = Dollars(70)
    /\ smart_round(get_percentile(CleanedSorted, 30)) = Dollars(55)

CleanedSet == {locals.cleaned_prices[i] : i \in 1..Len(locals.cleaned_prices)}
CleanedMin == CHOOSE v \in CleanedSet : \A w \in CleanedSet : v <= w
CleanedMax == CHOOSE v \in CleanedSet : \A w \in CleanedSet : w <= v
CleanedRange == CleanedMax - CleanedMin

(* the tiers as rounded, before the separation rule *)
Rounded == RoundedTiers(CleanedSorted)

RoundedEqual ==
    /\ Rounded.budget_tier = Rounded.standard_tier
    /\ Rounded.standard_tier = Rounded.premium_tier

RuleApplies ==
    /\ RoundedEqual
    /\ Len(locals.cleaned_prices) >= 3
    /\ CleanedRange > Dollars(10)

RuleStep ==
    IF CleanedRange < Dollars(50) THEN Dollars(5)
    ELSE IF CleanedRange < Dollars(200) THEN Dollars(10)
    ELSE Dollars(25)

(* C15: the separation rule changes the tiers only when the three rounded
   tiers are equal, the cleaned set has n >= 3 prices and its range
   r = max - min is strictly greater than 10; it then sets low to
   max(low - step, min of the cleaned set) and high to high + step with
   step = 5 if r < 50, 10 if r < 200, else 25, and leaves average unchanged;
   otherwise the three tiers are returned as rounded (five prices of 300 give
   300, 300, 300) *)
C15_SeparationRule ==
    ReturnedTiers
        => /\ result.average = Rounded.standard_tier
           /\ IF RuleApplies
              THEN /\ result.low = IF Rounded.budget_tier - RuleStep > CleanedMin
                                   THEN Rounded.budget_tier - RuleStep
                                   ELSE CleanedMin
                   /\ result.high = Rounded.premium_tier + RuleStep
              ELSE /\ result.low = Rounded.budget_tier
                   /\ result.high = Rounded.premium_tier
           /\ locals.cleaned_prices = Repeat(Dollars(300), 5)
                 => /\ result.low = Dollars(300)
                    /\ result.average = Dollars(300)
                    /\ result.high = Dollars(300)

(* ten prices from 25 to 97 whose tiers all round to 50: the range 72 gives
   step 10, low = max(40, 25) = 40 and high = 60 *)
C15_Witness ==
    /\ ReturnedTiers
    /\ RuleApplies
    /\ CleanedMin = Dollars(25)
    /\ CleanedMax = Dollars(97)
    /\ Rounded.standard_tier = Dollars(50)
    /\ result.low = Dollars(40)
    /\ result.average = Dollars(50)
    /\ result.high = Dollars(60)

ThreeIdenticalTiers == result.low = result.average /\ result.average = result.high

(* C16: whenever the cleaned set has at least 3 prices and a range greater
   than 10 the three returned tiers are not identical, and whenever the
   separation rule has fired high is strictly greater than average and low is
   not below the minimum price of the cleaned set *)
C16_NoDegenerateTiers ==
    /\ (ReturnedTiers /\ Len(locals.cleaned_prices) >= 3
            /\ CleanedRange > Dollars(10))
          => ~ThreeIdenticalTiers
    /\ (ReturnedTiers /\ RuleApplies)
          => /\ result.high > result.average
             /\ result.low >= CleanedMin

(* 52, 52, 70: the tiers round to 50, 50, 50, the rule fires and low is held
   at the observed minimum 52 instead of 45 *)
C16_Witness ==
    /\ ReturnedTiers
    /\ RuleApplies
    /\ locals.cleaned_prices = <<Dollars(52), Dollars(52), Dollars(70)>>
    /\ Rounded.budget_tier - RuleStep < CleanedMin
    /\ result.low = CleanedMin
    /\ result.high = Dollars(55)

(* keyword occurs in title as a run of consecutive characters *)
IsSubstring(keyword, title) ==
    \E start \in 1..(Len(title) - Len(keyword) + 1) :
        SubSeq(title, start, start + Len(keyword) - 1) = keyword

(* the indices of the listings the keyword step has to remove: those whose
   lowercased title contains a keyword of the list of the lowercased part *)
SuspiciousIndices ==
    LET fixed_list == suspicious_keywords(lower(part_name))
        titles == [i \in 1..Len(raw_items) |-> lower(RawTitles[i])]
    IN  {i \in 1..Len(raw_items) :
            \E k \in 1..Len(fixed_list) : IsSubstring(fixed_list[k], titles[i])}

RawIndices == [i \in 1..Len(raw_items) |-> i]

(* the raw prices at the listed indices, in that order *)
RawPricesAt(indices) == [j \in 1..Len(indices) |-> RawPrices[indices[j]]]

ReasonPrices(IsKind(_)) ==
    LET reasons == SelectSeq(locals.removed_items, IsKind)
    IN  [i \in 1..Len(reasons) |-> reasons[i].price]

(* C17: on 3 or more raw listings the keyword step removes exactly the
   listings whose lowercased title contains a keyword of the fixed list of
   the lowercased part name and keeps every other one; an unknown part and a
   listing without title remove nothing; for part engine "gasket set" is
   removed and "used engine block" is kept *)
C17_KeywordStageExact ==
    RanCleaning
        => LET suspicious == SuspiciousIndices
               TitleSuspicious(i) == i \in suspicious
               TitleClean(i) == i \notin suspicious
           IN  /\ locals.after_keywords
                      = RawPricesAt(SelectSeq(RawIndices, TitleClean))
               /\ ReasonPrices(IsKeywordReason)
                      = RawPricesAt(SelectSeq(RawIndices, TitleSuspicious))
               /\ part_name = "radio" => locals.after_keywords = RawPrices
               /\ \A i \in 1..Len(raw_items) :
                     /\ RawTitles[i] = "" => TitleClean(i)
                     /\ (part_name = "Engine" /\ RawTitles[i] = "Gasket Set")
                            => TitleSuspicious(i)
                     /\ (part_name = "Engine" /\ RawTitles[i] = "used engine block")
                            => TitleClean(i)

(* part "Engine" on an untitled listing, a "Gasket Set" and a "used engine
   block": only the gasket set is removed *)
C17_Witness ==
    /\ RanCleaning
    /\ part_name = "Engine"
    /\ RawTitles = <<"", "Gasket Set", "used engine block">>
    /\ locals.after_keywords = <<RawPrices[1], RawPrices[3]>>
    /\ ReasonPrices(IsKeywordReason) = <<RawPrices[2]>>

AtLeastMinimum(p) == p >= minimum_price
BelowMinimum(p) == p < minimum_price

(* C18: on 3 or more raw listings the threshold step removes exactly the
   survivors of the keyword step whose total price is strictly below the
   minimum price (a price equal to it is kept) and removes nothing when the
   minimum price is <= 0; so with a minimum price > 0 every price of the
   cleaned set is >= the minimum price *)
C18_ThresholdStageExact ==
    RanCleaning
        => IF minimum_price > 0
           THEN /\ locals.before_iqr = SelectSeq(locals.after_keywords, AtLeastMinimum)
                /\ ReasonPrices(IsThresholdReason)
                       = SelectSeq(locals.after_keywords, BelowMinimum)
                /\ \A i \in 1..Len(locals.cleaned_prices) :
                       locals.cleaned_prices[i] >= minimum_price
           ELSE /\ locals.before_iqr = locals.after_keywords
                /\ ReasonPrices(IsThresholdReason) = <<>>

(* a minimum of 52 on prices that include 52 and 25: the 52s stay, the 25 goes *)
C18_Witness ==
    /\ RanCleaning
    /\ minimum_price = Dollars(52)
    /\ \E i \in 1..Len(locals.before_iqr) : locals.before_iqr[i] = minimum_price
    /\ ReasonPrices(IsThresholdReason) = <<Dollars(25)>>
    /\ Len(locals.before_iqr) = Len(locals.after_keywords) - 1

KeywordReason(p) == [price |-> p, why |-> "Miscategorized"]
ThresholdReason(p) == [price |-> p, why |-> "Below minimum", minimum |-> minimum_price]
OutlierReason(p) == [price |-> p, why |-> "Statistical outlier"]

(* the removals each step has to record, in input order *)
KeywordRemovals ==
    LET suspicious == SuspiciousIndices
        TitleSuspicious(i) == i \in suspicious
        prices == RawPricesAt(SelectSeq(RawIndices, TitleSuspicious))
    IN  [i \in 1..Len(prices) |-> KeywordReason(prices[i])]

ThresholdRemovals ==
    LET prices == IF minimum_price > 0
                  THEN SelectSeq(locals.after_keywords, BelowMinimum)
                  ELSE <<>>
    IN  [i \in 1..Len(prices) |-> ThresholdReason(prices[i])]

OutlierRemovals ==
    LET prices == IF Len(locals.before_iqr) >= 10
                  THEN SelectSeq(locals.before_iqr, DroppedByIqr)
                  ELSE <<>>
    IN  [i \in 1..Len(prices) |-> OutlierReason(prices[i])]

(* C19: removed_details holds the first min(3, number of removals) recorded
   reasons, the reasons being recorded as all keyword removals in input
   order, then all threshold removals in input order, then all outlier
   removals in input order; it never has more than 3 entries and holds an
   outlier reason only if fewer than 3 keyword and threshold removals
   occurred *)
C19_RemovalSamplesOrder ==
    ReturnedTiers
        => LET recorded == KeywordRemovals \o ThresholdRemovals \o OutlierRemovals
               samples == result.removed_details
               shown == IF Len(recorded) < 3 THEN Len(recorded) ELSE 3
           IN  /\ locals.removed_items = recorded
               /\ Len(samples) = shown
               /\ \A i \in 1..shown : samples[i] = recorded[i]
               /\ (\E i \in 1..Len(samples) : IsOutlierReason(samples[i]))
                     => Len(KeywordRemovals) + Len(ThresholdRemovals) < 3

(* four removals, two below the minimum and two outliers: the samples are the
   two threshold reasons and the first outlier reason *)
C19_Witness ==
    /\ ReturnedTiers
    /\ Len(locals.removed_items) = 4
    /\ Len(result.removed_details) = 3
    /\ IsThresholdReason(result.removed_details[1])
    /\ IsThresholdReason(result.removed_details[2])
    /\ IsOutlierReason(result.removed_details[3])
    /\ IsOutlierReason(locals.removed_items[4])

(* the number of recorded removal reasons of one kind *)
CountReasons(IsKind(_)) == Len(SelectSeq(locals.removed_items, IsKind))

(* C27: on every return path of the statistical analyzer taken with at least
   3 raw prices, items_removed + cleaned_count equals the number of raw
   prices and the number of removal reasons recorded equals items_removed:
   each step records exactly one reason for each listing it drops, and a
   dropped listing is not seen by a later step *)
C27_RemovalAccounting ==
    (Returned /\ Len(raw_items) >= MinCleanable)
        => /\ RanCleaning
           /\ result.items_removed + result.cleaned_count = Len(raw_items)
           /\ Len(locals.removed_items) = result.items_removed
           /\ Len(locals.cleaned_prices) = result.cleaned_count
           /\ CountReasons(IsKeywordReason)
                 = Len(raw_items) - Len(locals.after_keywords)
           /\ CountReasons(IsThresholdReason)
                 = Len(locals.after_keywords) - Len(locals.before_iqr)
           /\ CountReasons(IsOutlierReason)
                 = Len(locals.before_iqr) - Len(locals.cleaned_prices)
           /\ CountReasons(IsKeywordReason) + CountReasons(IsThresholdReason)
                 + CountReasons(IsOutlierReason) = Len(locals.removed_items)

(* all three steps remove listings in one call and some prices remain *)
C27_Witness ==
    /\ ReturnedTiers
    /\ CountReasons(IsKeywordReason) > 0
    /\ CountReasons(IsThresholdReason) > 0
    /\ CountReasons(IsOutlierReason) > 0
    /\ result.items_removed = Len(locals.removed_items)
    /\ result.items_removed + result.cleaned_count = Len(raw_items)

-----------------------------------------------------------------------------
(* Properties of get_percentile, checked under SpecPercentile *)

(* floor(p/100 * (n-1)): the integer lo with lo <= p*(n-1)/100 < lo + 1 *)
FloorPosition(p, n) ==
    CHOOSE lo \in 0..(n - 1) : 100 * lo <= p * (n - 1) /\ p * (n - 1) < 100 * (lo + 1)

(* C12: on an ascending list of n >= 2 values and a percentile p in 0..100,
   get_percentile returns value[lo]*(1-w) + value[hi]*w with
   position = (p/100)*(n-1), lo = floor(position), hi = min(lo+1, n-1) and
   w = position - lo (50 on [10, 20, 30, 40] gives 25); on one value it
   returns that value for every p.  Both sides are multiplied by 100. *)
C12_InterpolatedPercentile ==
    (Returned /\ returned_by = "get_percentile")
        => LET value == locals.data
               n == Len(value)
               p == locals.percentile
               lo == FloorPosition(p, n)
               hi == IF lo + 1 < n - 1 THEN lo + 1 ELSE n - 1
               w100 == p * (n - 1) - 100 * lo
           IN  /\ n >= 2 => 100 * result
                               = value[lo + 1] * (100 - w100) + value[hi + 1] * w100
               /\ n = 1 => result = value[1]
               /\ (value = <<Dollars(10), Dollars(20), Dollars(30), Dollars(40)>>
                      /\ p = 50) => result = Dollars(25)

(* the documented example: position 1.5, halfway between 20 and 30 *)
C12_Witness ==
    /\ Returned
    /\ locals.data = <<Dollars(10), Dollars(20), Dollars(30), Dollars(40)>>
    /\ locals.percentile = 50
    /\ result = Dollars(25)

-----------------------------------------------------------------------------
(* Properties of smart_round and small_round, checked under SpecRound *)

StandardIncrement(price) ==
    IF price < Dollars(100) THEN Dollars(5)
    ELSE IF price < Dollars(500) THEN Dollars(10)
    ELSE Dollars(25)

SmallSampleIncrement(price) ==
    IF price < Dollars(50) THEN Dollars(1)
    ELSE IF price < Dollars(200) THEN Dollars(5)
    ELSE Dollars(10)

(* r is a multiple of the increment no further from price than half of it *)
NearestMultiple(r, price, increment) ==
    /\ r % increment = 0
    /\ 2 * (r - price) <= increment
    /\ 2 * (price - r) <= increment

(* C14: a tier is its raw percentile rounded to a nearest multiple of the
   increment selected by the raw percentile itself: in the standard regime 5
   below 100, 10 from 100 to below 500, 25 from 500 up (47 rounds to 45); in
   the small-sample regime 1 below 50, 5 from 50 to below 200, 10 from 200
   up; the rounded value is within half the increment of the raw one *)
C14_RoundedToIncrement ==
    /\ (Returned /\ returned_by = "smart_round")
          => /\ NearestMultiple(result, locals.price, StandardIncrement(locals.price))
             /\ locals.price = Dollars(47) => result = Dollars(45)
    /\ (Returned /\ returned_by = "small_round")
          => NearestMultiple(result, locals.price, SmallSampleIncrement(locals.price))

(* the documented example: 47 in the standard regime *)
C14_Witness ==
    /\ Returned
    /\ returned_by = "smart_round"
    /\ locals.price = Dollars(47)
    /\ result = Dollars(45)

-----------------------------------------------------------------------------
(* Properties of calculate_recommended_bid, checked under SpecBid *)

Tiers == {"low", "average", "high"}

(* what part i adds to the total of a tier *)
Contribution(i, tier) ==
    LET part == locals.parts_prices[i]
    IN  IF part.isdict THEN part.value[tier] ELSE part.value

TierSum(tier) ==
    SeqSum([i \in 1..Len(locals.parts_prices) |-> Contribution(i, tier)])

(* the multiplier of the call, in hundredths: 0.20 unless one was passed *)
MultiplierUsed == IF "multiplier" \in DOMAIN locals THEN locals.multiplier ELSE 20

(* C20: calculate_recommended_bid returns, for each tier, totals[tier] = the
   sum over the parts of the part's tier (a scalar result adds the scalar to
   all three totals, zero tiers add zero) and bids[tier] = totals[tier] *
   multiplier, the multiplier defaulting to 0.20; totals 1000, 1500, 2000
   with 0.2 give bids 200, 300, 400 and no parts give zero totals and bids.
   The bids are compared multiplied by 100. *)
C20_BidTotals ==
    (Returned /\ returned_by = "calculate_recommended_bid")
        => /\ DOMAIN result = {"totals", "bids"}
           /\ \A tier \in Tiers :
                 /\ result.totals[tier] = TierSum(tier)
                 /\ 100 * result.bids[tier] = result.totals[tier] * MultiplierUsed
           /\ (result.totals = [low |-> Dollars(1000), average |-> Dollars(1500),
                                high |-> Dollars(2000)] /\ MultiplierUsed = 20)
                 => result.bids = [low |-> Dollars(200), average |-> Dollars(300),
                                   high |-> Dollars(400)]
           /\ locals.parts_prices = <<>>
                 => \A tier \in Tiers : result.totals[tier] = 0 /\ result.bids[tier] = 0

(* two analysed parts and an old-format scalar of 50, the multiplier left to
   its default: totals 1050, 1550, 2050 and bids 210, 310, 410 *)
C20_Witness ==
    /\ Returned
    /\ returned_by = "calculate_recommended_bid"
    /\ "multiplier" \notin DOMAIN locals
    /\ Len(locals.parts_prices) = 3
    /\ \E i \in 1..3 : ~locals.parts_prices[i].isdict
    /\ result.totals = [low |-> Dollars(1050), average |-> Dollars(1550),
                        high |-> Dollars(2050)]
    /\ result.bids = [low |-> Dollars(210), average |-> Dollars(310),
                      high |-> Dollars(410)]

-----------------------------------------------------------------------------
(* Properties of the statistical analyzer on reordered listings, checked
   under SpecPermute *)

(* C28: the low, average and high tiers, items_removed and cleaned_count
   returned by the statistical analyzer are the same for a listing set and
   for every reordering of it that keeps each title with its price *)
C28_OrderIndependent ==
    pc = "done"
        => /\ locals.ret.low = result.low
           /\ locals.ret.average = result.average
           /\ locals.ret.high = result.high
           /\ locals.ret.items_removed = result.items_removed
           /\ locals.ret.cleaned_count = result.cleaned_count

(* a reordering that changes the order of the prices and of the recorded
   removal reasons of a set that goes through the cleaning steps and the
   tier calculation *)
C28_Witness ==
    /\ pc = "done"
    /\ raw_prices_of(locals.reordered) # raw_prices_of(raw_items)
    /\ result.items_removed >= 2
    /\ result.cleaned_count >= 3
    /\ result.low < result.high
    /\ locals.ret.removed_details # result.removed_details
    /\ locals.ret.low = result.low
    /\ locals.ret.high = result.high

-----------------------------------------------------------------------------
(* Properties of calculate_bid and decode_vin, checked under SpecRun *)

IsVinRequest(e) == e.event = "request" /\ e.to = "vin"
IsTokenRequest(e) == e.event = "request" /\ e.to = "token"
IsSearchRequest(e) == e.event = "request" /\ e.to = "search"
IsAnalysis(e) == e.event = "analyze"
IsWrite(e) == e.event = "write"
IsAggregation(e) == e.event = "aggregate"
IsText(e, text) == e.event = "message" /\ e.text = text

VinRequests == SelectSeq(events, IsVinRequest)
EscalatingTimeouts == <<15, 25, 35>>

(* decode_vin has returned to calculate_bid without a vehicle *)
Undecoded == pc \in {"decoded", "done"} /\ Len(vin) = 17 /\ vehicle_info = None

NothingAfterDecoding ==
    /\ \A i \in 1..Len(events) :
          /\ ~IsTokenRequest(events[i])
          /\ ~IsSearchRequest(events[i])
          /\ ~IsAnalysis(events[i])
          /\ ~IsWrite(events[i])
          /\ ~IsAggregation(events[i])
    /\ bid_analysis = None
    /\ parts_prices = <<>>

(* C22: decode_vin sends at most 3 requests, the k-th with a timeout of 15,
   25 and 35 seconds, and none after the attempt that yields a vehicle; when
   no attempt yields a vehicle all 3 were sent and calculate_bid ends having
   sent no token request and no search, analysed no part and aggregated no
   bid *)
C22_DecodeFailureAborts ==
    /\ Len(VinRequests) <= 3
    /\ \A k \in 1..Len(VinRequests) :
          VinRequests[k].timeout = EscalatingTimeouts[k]
    /\ \A i \in 1..Len(events) :
          IsText(events[i], "VIN decoded successfully!")
              => /\ i > 1 /\ IsVinRequest(events[i - 1])
                 /\ \A j \in (i + 1)..Len(events) : ~IsVinRequest(events[j])
    /\ Undecoded
          => /\ Len(VinRequests) = 3
             /\ NothingAfterDecoding
             /\ pc = "done" => returned_by = "undecoded"

(* three attempts without a vehicle, the last of them raising, after which
   the run has ended *)
C22_Witness ==
    /\ pc = "done"
    /\ returned_by = "undecoded"
    /\ [k \in 1..Len(VinRequests) |-> VinRequests[k].timeout] = <<15, 25, 35>>
    /\ \E i \in 1..Len(events) :
          IsText(events[i], "VIN decode failed after 3 attempts")
    /\ ebay_client_id # "" /\ ebay_client_secret # ""
    /\ Len(parts_list) = 2

Fields(info) == {f \in {"make", "model", "year"} : f \in DOMAIN info /\ info[f] # ""}

(* the events of a run without the two lines that only a raising attempt
   writes *)
IsFailureLine(e) ==
    \/ IsText(e, "Attempt failed")
    \/ IsText(e, "VIN decode failed after 3 attempts")
NotFailureLine(e) == ~IsFailureLine(e)

AbortedRun ==
    <<Message("Processing VIN..."), Request("vin", 15), Request("vin", 25),
      Request("vin", 35),
      Error("Could not decode VIN or retrieve vehicle information")>>

(* C29: decode_vin returns a vehicle only with make, model and year all
   present and non-empty; every attempt that does not return a vehicle,
   whether its request raised or its answer lacked a field, uses up one of
   the 3 attempts; and once 3 attempts are used up the run ends as it does
   after 3 raising requests: no vehicle, the same 3 requests and the same
   error shown, whatever the mix of the two kinds of failure *)
C29_IncompleteAnswerIsFailure ==
    /\ vehicle_info # None => Fields(vehicle_info) = {"make", "model", "year"}
    /\ pc = "decode_vin"
          => /\ Len(VinRequests) = attempt
             /\ attempt < 3
             /\ vehicle_info = None
    /\ Undecoded => Len(VinRequests) = 3
    /\ (pc = "done" /\ returned_by = "undecoded")
          => /\ vehicle_info = None
             /\ SelectSeq(events, NotFailureLine) = AbortedRun

(* the run has ended after three answers that arrived without error and
   lacked a field *)
C29_Witness ==
    /\ pc = "done"
    /\ returned_by = "undecoded"
    /\ Len(VinRequests) = 3
    /\ \A i \in 1..Len(events) : ~IsFailureLine(events[i])

-----------------------------------------------------------------------------
(* Properties of search_ebay_parts, checked under SpecSearch *)

IsAnswer(e) == e.event = "answer"
IsErrorLine(e) == e.event = "message" /\ e.error
Sent(test(_)) == \E k \in DOMAIN events : test(events[k])

(* C25: when no access token is held and the client id or the client
   secret is missing, nothing is sent to the marketplace: no token request,
   no search request, no part is analyzed or written, and when
   search_ebay_parts has returned, the error of the missing credentials is
   recorded and the result is the empty map. *)
C25_MissingCredentialsSendNothing ==
    (ebay_access_token = "" /\ (ebay_client_id = "" \/ ebay_client_secret = ""))
    => /\ ~Sent(IsTokenRequest)
       /\ ~Sent(IsSearchRequest)
       /\ ~Sent(IsAnalysis)
       /\ ~Sent(IsWrite)
       /\ pc = "searched"
          => /\ result = <<>>
             /\ returned_by = "no_token"
             /\ \E k \in DOMAIN events :
                   /\ IsErrorLine(events[k])
                   /\ events[k].text = "eBay credentials not found in .env file"

(* search_ebay_parts has returned for two configured parts with a client id
   and no client secret *)
C25_Witness ==
    /\ pc = "searched"
    /\ ebay_access_token = ""
    /\ ebay_client_id # ""
    /\ ebay_client_secret = ""
    /\ Len(parts_list) = 2
    /\ result = <<>>
    /\ Sent(IsErrorLine)

(* the items the searches for part i have answered with, in the order of
   the answers, up to event k *)
RECURSIVE FoundBy(_, _)
FoundBy(i, k) ==
    IF k = 0 THEN <<>>
    ELSE LET e == events[k]
         IN  FoundBy(i, k - 1) \o
             (IF /\ IsAnswer(e)
                 /\ e.part = i
                 /\ e.answer.kind = "http"
                 /\ e.answer.status_code = 200
                 /\ "itemSummaries" \in DOMAIN e.answer.data
              THEN e.answer.data.itemSummaries
              ELSE <<>>)

(* item n is the first one of its item id among the items found *)
IsFirstOfItsId(found, n) ==
    "itemId" \in DOMAIN found[n]
    => \A m \in 1..(n - 1) :
          "itemId" \in DOMAIN found[m] => found[m].itemId # found[n].itemId

(* the item has a price and a shipping cost that read as numbers *)
IsPriced(item) ==
    /\ "price" \in DOMAIN item
    /\ item.price # Null
    /\ "value" \in DOMAIN item.price
    /\ float_ok(item.price.value)
    /\ has_shipping_cost(item)
          => float_ok(item.shippingOptions[1].shippingCost.value)

FirstOptionCost(item) ==
    IF has_shipping_cost(item)
    THEN float(item.shippingOptions[1].shippingCost.value)
    ELSE 0

(* the listing is the one of this item *)
IsListingOf(listing, item) ==
    /\ IsPriced(item)
    /\ listing.price = float(item.price.value)
    /\ listing.shipping = FirstOptionCost(item)
    /\ listing.total_price = float(item.price.value) + FirstOptionCost(item)
    /\ listing.item_id = (IF "itemId" \in DOMAIN item THEN item.itemId ELSE "")

(* C30: the listings handed to the analyzer for a part are those of the
   items of its two searches together: every item that is the first of its
   item id, has a readable price and a total of at most 5000 is handed
   over, every listing handed over is the one of such a first item, no item
   id has two listings, the total of a listing is its price plus the cost
   of its first shipping option (0 without one), and no total exceeds
   5000. *)
C30_ListingsOfFirstOccurrences ==
    \A k \in DOMAIN events :
       IsAnalysis(events[k])
       => LET found == FoundBy(events[k].part, k)
              handed == events[k].raw_items
          IN  /\ \A a \in DOMAIN handed :
                    /\ handed[a].total_price = handed[a].price + handed[a].shipping
                    /\ handed[a].total_price <= Dollars(5000)
                    /\ \E n \in DOMAIN found :
                          /\ IsFirstOfItsId(found, n)
                          /\ IsListingOf(handed[a], found[n])
                    /\ \A b \in DOMAIN handed :
                          (a # b /\ handed[a].item_id # "")
                          => handed[a].item_id # handed[b].item_id
              /\ \A n \in DOMAIN found :
                    (/\ IsFirstOfItsId(found, n)
                     /\ IsPriced(found[n])
                     /\ float(found[n].price.value) + FirstOptionCost(found[n])
                           <= Dollars(5000))
                    => \E a \in DOMAIN handed : IsListingOf(handed[a], found[n])

(* the analyzer is called for a part whose two searches both answered with
   items, one item id found twice at different prices, one item of a total
   of exactly 5000, one above 5000 and one with two shipping options *)
C30_Witness ==
    \E k \in DOMAIN events :
       /\ IsAnalysis(events[k])
       /\ LET found == FoundBy(events[k].part, k)
              handed == events[k].raw_items
          IN  /\ \E m, n \in DOMAIN found :
                    /\ m < n
                    /\ "itemId" \in DOMAIN found[m]
                    /\ "itemId" \in DOMAIN found[n]
                    /\ found[m].itemId = found[n].itemId
                    /\ found[m].price # found[n].price
              /\ \E n \in DOMAIN found :
                    /\ IsPriced(found[n])
                    /\ float(found[n].price.value) + FirstOptionCost(found[n])
                          > Dollars(5000)
              /\ \E n \in DOMAIN found :
                    /\ has_shipping_cost(found[n])
                    /\ Len(found[n].shippingOptions) = 2
              /\ \E a \in DOMAIN handed : handed[a].total_price = Dollars(5000)
              /\ \E a \in DOMAIN handed : handed[a].shipping > 0
              /\ Len(handed) < Len(found)

(* what the events tell of part i *)
OfPart(e, i) == "part" \in DOMAIN e /\ e.part = i
SearchesSent(i) ==
    Cardinality({k \in DOMAIN events :
                    IsSearchRequest(events[k]) /\ OfPart(events[k], i)})
WritesOf(i) == {k \in DOMAIN events : IsWrite(events[k]) /\ OfPart(events[k], i)}
IsZero(value) == value.low = 0 /\ value.average = 0 /\ value.high = 0
ZeroWritten(i) == \E k \in WritesOf(i) : IsZero(events[k].value)
ErrorShown(i) ==
    \E k \in DOMAIN events : IsErrorLine(events[k]) /\ OfPart(events[k], i)
DiagnosticShown(i) ==
    \E k \in DOMAIN events :
       /\ OfPart(events[k], i)
       /\ \/ IsErrorLine(events[k])
          \/ IsText(events[k], "No valid prices found")

(* the loop has left part i behind *)
IsDone(i) == pc \in {"search", "process", "searched"} /\ i < part_index

(* the searches of part i found no listing *)
NothingFound(i) == IsDone(i) /\ FoundBy(i, Len(events)) = <<>>

(* the analyzer was called for part i and its call is followed by the
   error line of the handler, not by the write of its result *)
AnalysisRaised(i) ==
    \E k \in DOMAIN events :
       /\ IsAnalysis(events[k]) /\ OfPart(events[k], i)
       /\ k < Len(events)
       /\ IsErrorLine(events[k + 1])

SearchKeys == {parts_list[i].search_query : i \in DOMAIN parts_list}

(* C21: once a token is held the loop over the parts runs to its end
   whatever fails: a part whose searches found nothing, or whose processing
   showed an error line (an exception in the loop over the items or in the
   analyzer), is written with low = average = high = 0 and has an error or
   diagnostic line; every part the loop has left was searched twice and
   written once; and when search_ebay_parts has returned, every configured
   part was searched and written and has its entry in the result map. *)
C21_FailingPartDoesNotStopTheLoop ==
    /\ \A i \in DOMAIN parts_list :
          /\ IsDone(i) => (SearchesSent(i) = 2 /\ Cardinality(WritesOf(i)) = 1)
          /\ NothingFound(i) => (ZeroWritten(i) /\ ErrorShown(i))
          /\ AnalysisRaised(i) => (ZeroWritten(i) /\ ErrorShown(i))
          /\ ErrorShown(i) => ZeroWritten(i)
          /\ (IsDone(i) /\ ZeroWritten(i)) => DiagnosticShown(i)
    /\ (pc = "searched" /\ ebay_access_token # "")
       => /\ returned_by = "parts_prices"
          /\ part_index = Len(parts_list) + 1
          /\ \A i \in DOMAIN parts_list :
                /\ IsDone(i)
                /\ HasKey(result, parts_list[i].search_query)

(* search_ebay_parts has returned for two parts of different keywords: the
   analyzer raised on the first, and the second was analyzed and has a
   price in the result map *)
C21_Witness ==
    /\ pc = "searched"
    /\ Len(parts_list) = 2
    /\ parts_list[1].search_query # parts_list[2].search_query
    /\ AnalysisRaised(1)
    /\ ~ZeroWritten(2)
    /\ \E n \in DOMAIN result :
          /\ result[n].key = parts_list[1].search_query
          /\ IsZero(result[n].value)
    /\ \E n \in DOMAIN result :
          /\ result[n].key = parts_list[2].search_query
          /\ result[n].value.average > 0

(* C23: no key of the result map is assigned more than once during one
   run of search_ebay_parts. *)
C23_WriteOncePerKey ==
    \A a, b \in DOMAIN events :
       (IsWrite(events[a]) /\ IsWrite(events[b]) /\ a # b)
       => events[a].key # events[b].key

(* C24: the map search_ebay_parts returns is either empty, returned
   before the loop over the parts, or has an entry for every configured
   part and no other entry. *)
C24_AllPartsOrNone ==
    pc = "searched"
    => \/ /\ returned_by = "no_token"
          /\ result = <<>>
          /\ ~Sent(IsSearchRequest)
       \/ /\ returned_by = "parts_prices"
          /\ {result[n].key : n \in DOMAIN result} = SearchKeys

(* search_ebay_parts has returned a map with the entries of two parts, the
   first of which found nothing and the second of which was analyzed *)
C24_Witness ==
    /\ pc = "searched"
    /\ returned_by = "parts_prices"
    /\ Len(parts_list) = 2
    /\ Len(result) = 2
    /\ NothingFound(1)
    /\ ~ZeroWritten(2)

(* C26: the events of the parts follow the order of parts_list: no event
   of a part comes after an event of a later part, each search asks for
   the keyword of its part, and when a search is sent for a part every part
   before it has had its two searches and its write. *)
C26_PartsInListOrder ==
    /\ \A a, b \in DOMAIN events :
          (a < b /\ "part" \in DOMAIN events[a] /\ "part" \in DOMAIN events[b])
          => events[a].part <= events[b].part
    /\ \A b \in DOMAIN events :
          IsSearchRequest(events[b])
          => /\ events[b].part \in DOMAIN parts_list
             /\ events[b].q \in
                   {search_queries(vehicle_info, parts_list[events[b].part])[n] :
                       n \in 1..2}
             /\ \A i \in 1..(events[b].part - 1) :
                   /\ Cardinality({a \in 1..(b - 1) :
                         IsSearchRequest(events[a]) /\ OfPart(events[a], i)}) = 2
                   /\ \E a \in 1..(b - 1) :
                         IsWrite(events[a]) /\ OfPart(events[a], i)

(* search_ebay_parts has returned for two parts that were both analyzed *)
C26_Witness ==
    /\ pc = "searched"
    /\ Len(parts_list) = 2
    /\ SearchesSent(1) = 2
    /\ SearchesSent(2) = 2
    /\ \E a, b \in DOMAIN events :
          /\ a < b
          /\ IsAnalysis(events[a]) /\ OfPart(events[a], 1)
          /\ IsAnalysis(events[b]) /\ OfPart(events[b], 2)
    /\ ~ZeroWritten(1)
    /\ ~ZeroWritten(2)

-----------------------------------------------------------------------------
(* Properties of the AI analyzer, checked under Spec and FairSpec *)

AiEnabled == gemini_model /\ use_ai_analysis

SchemaKeys ==
    {"low_price", "average_price", "high_price", "items_analyzed",
     "items_filtered_out", "reasoning"}
TierKeys == {"low_price", "average_price", "high_price"}

AllAttemptsFailed == failures = 3
NotJson == response.kind = "not_json"
KeyMissing == response.kind = "object" /\ SchemaKeys \ DOMAIN response.obj # {}
TierNotNumeric ==
    /\ response.kind = "object"
    /\ \E k \in TierKeys \cap DOMAIN response.obj :
          \/ response.obj[k].t = "null"
          \/ response.obj[k].t = "string" /\ response.obj[k].v = "n/a"
AiPathFailed == AllAttemptsFailed \/ NotJson \/ KeyMissing \/ TierNotNumeric

(* C2: with the AI analyzer enabled and a non-empty listing set, whenever the
   AI path fails (3 failed attempts, unparseable text, a missing key, a tier
   that is no number) the call returns what the statistical analyzer returns
   on the same prices, titles, part name and minimum price *)
C2_FailureFallsBack ==
    (Returned /\ AiEnabled /\ raw_items # <<>> /\ AiPathFailed)
        => /\ returned_by = "fallback"
           /\ result = DirectResult

(* a fallback after unparseable text on a set the minimum price and the
   keyword list both cut *)
C2_Witness ==
    /\ Returned /\ AiEnabled /\ NotJson
    /\ Len(raw_items) >= 3
    /\ result = DirectResult
    /\ result.items_removed = 2
    /\ result.low > 0

(* C3 as stated: a response is accepted only if its key set is exactly the
   six keys, and a response with any other key set falls back *)
C3_ExactKeySet ==
    /\ returned_by = "ai" => DOMAIN response.obj = SchemaKeys
    /\ (Returned /\ response.kind = "object" /\ DOMAIN response.obj # SchemaKeys)
          => returned_by = "fallback"

(* C3 amended: a response is accepted only if it is an object holding all six
   keys (other keys are ignored), and a response that is no object or lacks
   one of them falls back to the statistical analyzer *)
C3_RequiredKeysPresent ==
    /\ returned_by = "ai"
          => response.kind = "object" /\ SchemaKeys \subseteq DOMAIN response.obj
    /\ (Returned /\ response.kind # "none"
            /\ ~(response.kind = "object" /\ SchemaKeys \subseteq DOMAIN response.obj))
          => returned_by = "fallback" /\ result = DirectResult

(* a response with a seventh key, accepted *)
C3_Witness ==
    /\ returned_by = "ai"
    /\ SchemaKeys \subseteq DOMAIN response.obj
    /\ DOMAIN response.obj # SchemaKeys
    /\ result.low = response.obj.low_price.v

(* C4: with the model unset or AI analysis disabled the model is never
   invoked and the call returns what the statistical analyzer returns on the
   same prices, titles, part name and minimum price *)
C4_DisabledDelegates ==
    ~AiEnabled
        => /\ calls = 0
           /\ response.kind = "none"
           /\ Returned => returned_by = "delegate" /\ result = DirectResult

(* a delegated call whose result the keyword list shaped *)
C4_Witness ==
    /\ Returned
    /\ ~use_ai_analysis
    /\ Len(raw_items) >= 3
    /\ result = DirectResult
    /\ result.items_removed = 1
    /\ result.low > 0

(* C5: the model is invoked at most 3 times; every invocation but a
   successful last one raised, and none follows a success; after a third
   failure the call has returned the statistical result *)
C5_RetryState ==
    /\ calls <= 3
    /\ calls = failures + (IF response.kind = "none" THEN 0 ELSE 1)
    /\ failures = 3 => Returned /\ returned_by = "fallback" /\ result = DirectResult
    /\ Returned => result # NoResult

(* C5: a further invocation is made only while every earlier one has raised *)
C5_RetryStep ==
    calls' # calls
        => /\ calls' = calls + 1
           /\ failures = calls
           /\ response.kind = "none"
           /\ ~Returned

(* C5: at most 3 invocations, each after the failure of the one before, none
   after a success, the statistical result after the third failure, and the
   call always returns a result *)
C5_BoundedRetry ==
    /\ []C5_RetryState
    /\ [][C5_RetryStep]_vars
    /\ <>(Returned /\ result # NoResult)

(* three invocations, all raised, and the fallback returned *)
C5_Witness ==
    /\ Returned
    /\ calls = 3
    /\ failures = 3
    /\ returned_by = "fallback"
    /\ result = DirectResult

(* C6: an accepted response is returned as it is: low, average and high are
   its low_price, average_price and high_price, unrounded and unordered,
   items_analyzed, items_removed and reasoning are its items_analyzed,
   items_filtered_out and reasoning *)
C6_ResponseVerbatim ==
    returned_by = "ai"
        => LET obj == response.obj
               number(j) == IF j.t = "number" THEN j.v
                            ELSE IF j.v = "45" THEN Dollars(45) ELSE -1
           IN  /\ result.low = number(obj.low_price)
               /\ result.average = number(obj.average_price)
               /\ result.high = number(obj.high_price)
               /\ result.items_analyzed = obj.items_analyzed.v
               /\ result.items_removed = obj.items_filtered_out.v
               /\ result.items_filtered_out = obj.items_filtered_out.v
               /\ result.reasoning = obj.reasoning.v

(* a response with low_price 120 above high_price 100, returned unordered *)
C6_Witness ==
    /\ returned_by = "ai"
    /\ response.obj.low_price = Num(Dollars(120))
    /\ result.low = Dollars(120)
    /\ result.high = Dollars(100)
    /\ result.low > result.high

====
